---- MODULE Spec2Model ----
(***************************************************************************)
(* Model of the living-arts video production pipeline:                     *)
(*   - the Pages app actions useCreateProject / useRetryProject /          *)
(*     useDeleteProject (src/src/routes/index.tsx),                        *)
(*   - the video-workflow worker handlers handleStart / handleWebhook      *)
(*     (src/workers/video-workflow/src/index.ts),                          *)
(*   - the two VideoProductionWorkflow.run implementations                 *)
(*     (src/src/workflows/video-production.ts, called "app" here, and      *)
(*      src/workers/video-workflow/src/index.ts, called "worker" here),    *)
(*     executed step by step through step.do.                              *)
(***************************************************************************)
EXTENDS Integers, Sequences, FiniteSets, TLC

\* ---------------------------------------------------------------- bounds
NumProjects == 1      \* project ids that can be generated
MaxReqs     == 2      \* create / retry requests (each starts at most one run)
MaxCrashes  == 1      \* engine crashes followed by re-entry of run()
MaxWebhooks == 1      \* POST /webhook calls
MaxSections == 3      \* sections of a script (gather-stock-media)
MaxMedia    == 2      \* media items in one stock-media response
MaxTracks   == 2      \* tracks in one category of a timeline (converter)
MaxConversions == 2   \* conversions of one timeline (converter)
MaxExecutions  == 2   \* executions of assemble-timeline on the same inputs
MaxPolls    == 2      \* GET /status/:render_id requests (render-service)
MaxSearches == 3      \* searches answered by stock-media
TickSeconds == 1800   \* seconds the clock of the search cache advances by
MaxClock    == 7200   \* last time of the search cache's clock

Projects == 1..NumProjects
Reqs     == 1..MaxReqs

\* ------------------------------------------------------ program constants
VoiceoverRetryLimit == 3     \* retries: { limit: 3, ... } of generate-voiceover
RenderRetryLimit    == 2     \* retries: { limit: 2, ... } of render-video
CACHE_TTL           == 3600  \* expirationTtl of SEARCH_CACHE entries, in seconds

NULL == "NULL"
URL  == "url"

VARIABLES
    variant,    \* which VideoProductionWorkflow class VIDEO_WORKFLOW is bound to
    rows,       \* the projects table: project id -> row (domain = existing rows)
    usedIds,    \* project ids already produced by crypto.randomUUID()
    storage,    \* R2 bucket: project id -> set of artifact keys written
    req,        \* create / retry requests of the Pages app, with their position
    run,        \* workflow instances (instance id = id of the request that started it)
    crashes,    \* number of engine crashes so far
    webhooks,   \* number of POST /webhook calls so far
    gScript,    \* gather-stock-media study: number of sections of the script
    gCalls,     \* gather-stock-media study: outcome of each stock-media call
    gResult,    \* gather-stock-media study: outcome of the step
    tScript,    \* assemble-timeline study: the script's sections
    tMedia,     \* assemble-timeline study: the result of gather-stock-media
    tTimeline,  \* assemble-timeline study: the timeline the step returns
    render,     \* render study: submissions, poll loop and outcome of the render step
    voice,      \* generate-voiceover study: attempts and outcome of the step
    http,       \* worker endpoints study: the last request served and its effects
    scriptGen,  \* generate-script study: the provider's response and the step's outcome
    speech,     \* speech adapter study: the provider's answer and the response to it
    conv,       \* TimelineConverter study: the timeline and the edits converted from it
    jobs,       \* render-service study: RENDER_JOBS, the provider, R2 and the handlers in flight
    cache       \* stock-media study: SEARCH_CACHE, the clock and the searches answered

vars == <<variant, rows, usedIds, storage, req, run, crashes, webhooks,
          gScript, gCalls, gResult, tScript, tMedia, tTimeline, render, voice, http,
          scriptGen, speech, conv, jobs, cache>>
mainVars == <<variant, rows, usedIds, storage, req, run, crashes, webhooks>>
gatherVars == <<gScript, gCalls, gResult>>
timelineVars == <<tScript, tMedia, tTimeline>>
\* The variables of the single-step studies below.
serviceVars == <<jobs, cache>>
adapterVars == <<scriptGen, speech, conv, serviceVars>>
studyVars == <<gatherVars, timelineVars, render, voice, http, adapterVars>>

\* ------------------------------------------------------------ step lists
\* The step.do names of run() in source order.
AppSteps ==
    << "generate-script", "update-script-status", "generate-voiceover",
       "update-voiceover-status", "gather-stock-media", "assemble-timeline",
       "update-timeline-status", "submit-render", "wait-for-render",
       "update-complete-status" >>

WorkerSteps ==
    << "generate-script", "update-script-status", "generate-voiceover",
       "update-voiceover-status", "gather-stock-media", "assemble-timeline",
       "update-timeline-status", "render-video", "update-status" >>

Steps(v) == IF v = "app" THEN AppSteps ELSE WorkerSteps

\* Per-step retry policy: number of re-attempts after a failed attempt.
\* Only the worker's generate-voiceover and render-video pass a policy.
RetryLimit(v, s) ==
    IF v = "worker" /\ s = "generate-voiceover" THEN VoiceoverRetryLimit
    ELSE IF v = "worker" /\ s = "render-video" THEN RenderRetryLimit
    ELSE 0

\* Steps whose work function can throw.  The app's assemble-timeline is a
\* pure computation; the worker's gather-stock-media wraps its whole body in
\* try/catch and returns [].
CanFail(v, s) ==
    ~ (  (v = "app" /\ s = "assemble-timeline")
      \/ (v = "worker" /\ s = "gather-stock-media") )

\* ------------------------------------------------------------------ rows
NewRow(st) ==
    [ status |-> st, script_url |-> NULL, voiceover_url |-> NULL,
      timeline_url |-> NULL, output_url |-> NULL, workflow_id |-> NULL,
      error_message |-> NULL, script_json |-> NULL, timeline_json |-> NULL ]

\* An UPDATE without its WHERE clause: every row takes the changes.
UpdateRow_AllRows(tbl, p, changes) ==
    [q \in DOMAIN tbl |-> changes @@ tbl[q]]

\* A write that inserts the row when no row matches.
UpdateRow_Upsert(tbl, p, changes) ==
    IF p \in DOMAIN tbl
    THEN [q \in DOMAIN tbl |-> IF q = p THEN changes @@ tbl[q] ELSE tbl[q]]
    ELSE (p :> (changes @@ NewRow("starting"))) @@ tbl

\* UPDATE projects SET <changes> WHERE id = p : no effect when no row matches.
UpdateRow(tbl, p, changes) ==
    IF p \in DOMAIN tbl
    THEN [q \in DOMAIN tbl |-> IF q = p THEN changes @@ tbl[q] ELSE tbl[q]]
    ELSE tbl

InsertRow(tbl, p, row) == (p :> row) @@ tbl

DeleteRow(tbl, p) == [q \in DOMAIN tbl \ {p} |-> tbl[q]]

\* A store that keeps every put as a new version of the object.
PutObject_Versioned(st, p, key) ==
    [st EXCEPT ![p] = @ \cup {<<key, Cardinality(@)>>}]

\* STORAGE.put(`projects/${p}/<key>`, ...): the object under the key is
\* replaced.
PutObject(st, p, key) == [st EXCEPT ![p] = @ \cup {key}]

\* ------------------------------------------------------------------ runs
NoReq == [kind |-> "none", proj |-> 0, pc |-> "idle"]
NoRun == [state |-> "none", pc |-> 1, working |-> FALSE, attempts |-> 0,
          failed |-> FALSE, persisted |-> {}, renderUrl |-> NULL]

ProjOf(r) == req[r].proj

\* The step.do call the run is positioned at.
CurStep(r) ==
    IF run[r].failed THEN "handle-error" ELSE Steps(variant)[run[r].pc]

Active(r) == run[r].state = "running"

\* Requests take the request slots in order.
FreeSlot(c) ==
    /\ req[c].kind = "none"
    /\ \A d \in Reqs : d < c => req[d].kind # "none"

\* Nothing submitted yet: no project, no request, no run.
MainInit ==
    /\ variant \in {"app", "worker"}
    /\ rows = << >>
    /\ usedIds = {}
    /\ storage = [p \in Projects |-> {}]
    /\ req = [c \in Reqs |-> NoReq]
    /\ run = [c \in Reqs |-> NoRun]
    /\ crashes = 0
    /\ webhooks = 0

\* The single-step studies at rest.
Idle == [kind |-> "idle"]
GatherIdle == gScript = 0 /\ gCalls = << >> /\ gResult = Idle
TimelineIdle == tScript = << >> /\ tMedia = << >> /\ tTimeline = Idle
RenderIdle == render = Idle
VoiceIdle == voice = Idle
HttpIdle == http = Idle
ServicesIdle == jobs = Idle /\ cache = Idle
AdaptersIdle == scriptGen = Idle /\ speech = Idle /\ conv = Idle /\ ServicesIdle

Init ==
    /\ MainInit
    /\ GatherIdle /\ TimelineIdle /\ RenderIdle /\ VoiceIdle /\ HttpIdle /\ AdaptersIdle


\* ------------------------------------------------ Pages app: create / retry
\* useCreateProject, first part: crypto.randomUUID(), INSERT ... 'starting',
\* then the POST /start request is issued.
useCreateProject_Insert(c, p) ==
    /\ FreeSlot(c)
    /\ p \notin usedIds
    /\ usedIds' = usedIds \cup {p}
    /\ rows' = InsertRow(rows, p, NewRow("starting"))
    /\ req' = [req EXCEPT ![c] = [kind |-> "create", proj |-> p, pc |-> "posted"]]
    /\ UNCHANGED <<variant, storage, run, crashes, webhooks, studyVars>>

\* A retry that accepts only projects in an error state.
RetryFinds_OnlyFailed(p) ==
    p \in DOMAIN rows /\ rows[p].status \in {"error", "failed"}

\* The row the retry's SELECT finds (the action has no condition on status).
RetryFinds(p) == p \in DOMAIN rows

\* The reset UPDATE of useRetryProject (script_url is not in its SET list).
RetryResetRow ==
    [ status |-> "starting", workflow_id |-> NULL, output_url |-> NULL,
      script_json |-> NULL, timeline_json |-> NULL, timeline_url |-> NULL,
      voiceover_url |-> NULL, error_message |-> NULL ]

\* useRetryProject, first part: SELECT the project; "Project not found" ends
\* the action; otherwise the reset UPDATE runs and POST /start is issued.
useRetryProject_Reset(c, p) ==
    /\ FreeSlot(c)
    /\ p \in usedIds
    /\ IF RetryFinds(p)
       THEN /\ rows' = UpdateRow(rows, p, RetryResetRow)
            /\ req' = [req EXCEPT ![c] = [kind |-> "retry", proj |-> p, pc |-> "posted"]]
       ELSE /\ rows' = rows
            /\ req' = [req EXCEPT ![c] = [kind |-> "retry", proj |-> p, pc |-> "done"]]
    /\ UNCHANGED <<variant, usedIds, storage, run, crashes, webhooks, studyVars>>

\* Tail of useCreateProject / useRetryProject after the fetch resolved:
\* ok response -> workflow_id and 'processing'; otherwise (non-ok response or
\* thrown fetch) -> 'failed'.
ClientFinish(c) ==
    /\ req[c].pc \in {"resp_ok", "resp_fail"}
    /\ rows' = IF req[c].pc = "resp_ok"
               THEN UpdateRow(rows, req[c].proj,
                              [workflow_id |-> c, status |-> "processing"])
               ELSE UpdateRow(rows, req[c].proj, [status |-> "failed"])
    /\ req' = [req EXCEPT ![c].pc = "done"]
    /\ UNCHANGED <<variant, usedIds, storage, run, crashes, webhooks, studyVars>>

useCreateProject_Finish(c) == req[c].kind = "create" /\ ClientFinish(c)

useRetryProject_Finish(c) == req[c].kind = "retry" /\ ClientFinish(c)

\* useDeleteProject: DELETE FROM projects WHERE id = p.
useDeleteProject(p) ==
    /\ p \in DOMAIN rows
    /\ rows' = DeleteRow(rows, p)
    /\ UNCHANGED <<variant, usedIds, storage, req, run, crashes, webhooks, studyVars>>

\* ------------------------------------------------- worker: POST /start
\* The status value handleStart writes after creating the instance.
StartStatus == "workflow_started"

\* handleStart up to `await env.VIDEO_WORKFLOW.create({ params })`: the
\* instance exists and runs from now on; if create() throws (or the request
\* never reaches the worker) the caller sees a failure.
handleStart_Create(c) ==
    /\ req[c].pc = "posted"
    /\ \/ /\ run' = [run EXCEPT ![c] = [NoRun EXCEPT !.state = "running"]]
          /\ req' = [req EXCEPT ![c].pc = "created"]
       \/ /\ run' = run
          /\ req' = [req EXCEPT ![c].pc = "resp_fail"]
    /\ UNCHANGED <<variant, rows, usedIds, storage, crashes, webhooks, studyVars>>

\* handleStart after create(): UPDATE ... status, workflow_id; then the 200
\* response.  If the UPDATE throws, the catch answers 500 (START_ERROR) while
\* the instance stays alive.
handleStart_Update(c) ==
    /\ req[c].pc = "created"
    /\ \/ /\ rows' = UpdateRow(rows, req[c].proj,
                               [status |-> StartStatus, workflow_id |-> c])
          /\ req' = [req EXCEPT ![c].pc = "resp_ok"]
       \/ /\ rows' = rows
          /\ req' = [req EXCEPT ![c].pc = "resp_fail"]
    /\ UNCHANGED <<variant, usedIds, storage, run, crashes, webhooks, studyVars>>

\* ------------------------------------------------ worker: POST /webhook
\* handleWebhook: no authentication; a body of type render_complete updates
\* the named project, any other body is only acknowledged.
handleWebhook(p, type, url) ==
    /\ webhooks < MaxWebhooks
    /\ webhooks' = webhooks + 1
    /\ rows' = IF type = "render_complete"
               THEN UpdateRow(rows, p, [output_url |-> url, status |-> "complete"])
               ELSE rows
    /\ UNCHANGED <<variant, usedIds, storage, req, run, crashes, studyVars>>


\* ------------------------------------------------------ workflow engine
\* An engine that never consults the persisted results.
HasCachedResult_Never(r, s) == FALSE

\* step.do(name, work): a step whose result is already persisted returns that
\* result without running work.
HasCachedResult(r, s) == s \in run[r].persisted

\* The run moves past a step; after the last step run() returns.
\* An instance that has ended keeps only its final state: the in-memory
\* position and the step results are gone with it.
Ended(st) == [NoRun EXCEPT !.state = st]

Advance(rec) ==
    IF rec.pc + 1 > Len(Steps(variant))
    THEN Ended("complete")
    ELSE [rec EXCEPT !.pc = @ + 1]

\* What `url` the render status reports with "done": the app's wait-for-render
\* only returns on `done && status.url`; the worker's render-video returns
\* status.data.url as it is.
RenderUrls(v) == IF v = "app" THEN {URL} ELSE {URL, NULL}

IsRenderStep(s) == s \in {"wait-for-render", "render-video"}

\* A failure handler that also takes back the references written so far.
HandleErrorChanges_Rollback ==
    [status |-> "error", script_url |-> NULL, voiceover_url |-> NULL,
     timeline_url |-> NULL]

\* handle-error: UPDATE projects SET status = 'error', updated_at = ... .
HandleErrorChanges == [status |-> "error"]

\* The UPDATE a step's work function issues (the columns it sets).
StepChanges(v, s, out) ==
    IF s = "handle-error" THEN HandleErrorChanges
    ELSE IF s = "update-script-status" THEN
        IF v = "app" THEN [status |-> "script_generated", script_url |-> URL]
        ELSE [status |-> "script_generated"]
    ELSE IF s = "update-voiceover-status" THEN
        [status |-> "voiceover_generated", voiceover_url |-> URL]
    ELSE IF s = "update-timeline-status" THEN
        [status |-> "timeline_assembled", timeline_url |-> URL]
    ELSE IF s \in {"update-complete-status", "update-status"} THEN
        [status |-> "complete", output_url |-> out]
    ELSE IF v = "worker" /\ s = "generate-script" THEN [script_json |-> "json"]
    ELSE IF v = "worker" /\ s = "assemble-timeline" THEN [timeline_json |-> "json"]
    ELSE << >>

\* The STORAGE.put a step's work function issues.
StepStorage(v, s, st, p) ==
    IF v = "app" /\ s = "update-script-status" THEN PutObject(st, p, "script.json")
    ELSE IF s = "update-timeline-status" THEN PutObject(st, p, "timeline.json")
    ELSE st

\* step.do on a step with a persisted result: the cached result is returned.
stepDo_Cached(r) ==
    /\ Active(r) /\ ~ run[r].working
    /\ HasCachedResult(r, CurStep(r))
    /\ run' = [run EXCEPT ![r] = Advance(@)]
    /\ UNCHANGED <<variant, rows, usedIds, storage, req, crashes, webhooks, studyVars>>

\* step.do on a step without a persisted result: the work function starts.
stepDo_Start(r) ==
    /\ Active(r) /\ ~ run[r].working
    /\ ~ HasCachedResult(r, CurStep(r))
    /\ run' = [run EXCEPT ![r].working = TRUE]
    /\ UNCHANGED <<variant, rows, usedIds, storage, req, crashes, webhooks, studyVars>>

\* Where an exception escaping a main-line step goes: the app's run() has a
\* try/catch around all steps, the worker's run() has none.
HasCatch(v) == v = "app"

\* The work function of the current step returns `out`: its writes are done
\* and the result is persisted.  handle-error is followed by `throw error`,
\* which ends the run.
WorkSuccess(r, out) ==
    LET s    == CurStep(r)
        rec  == [run[r] EXCEPT !.working = FALSE, !.attempts = 0,
                               !.persisted = @ \cup {s}, !.renderUrl = out]
    IN  /\ rows' = UpdateRow(rows, ProjOf(r), StepChanges(variant, s, out))
        /\ storage' = StepStorage(variant, s, storage, ProjOf(r))
        /\ run' = [run EXCEPT ![r] =
                     IF s = "handle-error"
                     THEN Ended("errored")
                     ELSE Advance(rec)]

\* The values the work function of step s can return, as far as later steps
\* use them.
WorkResults(r, s) ==
    IF IsRenderStep(s) THEN RenderUrls(variant) ELSE {run[r].renderUrl}

\* The work function of the current step throws.  With attempts left the
\* engine re-attempts the step; otherwise the step fails: the exception
\* reaches run(), which catches it (app) or is ended by it (worker; also when
\* handle-error itself throws).
WorkFailure(r) ==
    /\ CanFail(variant, CurStep(r))
    /\ run' = [run EXCEPT ![r] =
                 IF @.attempts < RetryLimit(variant, CurStep(r))
                 THEN [@ EXCEPT !.working = FALSE, !.attempts = @ + 1]
                 ELSE IF HasCatch(variant) /\ ~ @.failed
                 THEN [@ EXCEPT !.working = FALSE, !.attempts = 0, !.failed = TRUE]
                 ELSE Ended("errored")]
    /\ UNCHANGED <<rows, storage>>

\* One attempt of a step as a single transition (its only shared write is the
\* UPDATE at its end): used where runs interleave with requests.
stepDo(r) ==
    /\ Active(r) /\ ~ run[r].working
    /\ ~ HasCachedResult(r, CurStep(r))
    /\ \/ \E out \in WorkResults(r, CurStep(r)) : WorkSuccess(r, out)
       \/ WorkFailure(r)
    /\ UNCHANGED <<variant, usedIds, req, crashes, webhooks, studyVars>>

\* The same attempt in two transitions, so that a crash can fall between the
\* start of the work function and the persisting of its result.
stepDo_Success(r) ==
    /\ Active(r) /\ run[r].working
    /\ \E out \in WorkResults(r, CurStep(r)) : WorkSuccess(r, out)
    /\ UNCHANGED <<variant, usedIds, req, crashes, webhooks, studyVars>>

stepDo_Failure(r) ==
    /\ Active(r) /\ run[r].working
    /\ WorkFailure(r)
    /\ UNCHANGED <<variant, usedIds, req, crashes, webhooks, studyVars>>

\* The engine crashes (or is redeployed) while the run is active: in-memory
\* state is lost, persisted step results are kept, run() is re-entered from
\* its first line.
Crash(r) ==
    /\ Active(r)
    /\ crashes < MaxCrashes
    /\ crashes' = crashes + 1
    /\ run' = [run EXCEPT ![r] = [@ EXCEPT !.pc = 1, !.working = FALSE,
                                           !.failed = FALSE]]
    /\ UNCHANGED <<variant, rows, usedIds, storage, req, webhooks, studyVars>>

\* ------------------------------------------------------------ behaviours
\* Requests, handlers and runs interleaved.
Next ==
    \/ \E c \in Reqs, p \in Projects : useCreateProject_Insert(c, p)
    \/ \E c \in Reqs, p \in Projects : useRetryProject_Reset(c, p)
    \/ \E c \in Reqs : useCreateProject_Finish(c)
    \/ \E c \in Reqs : useRetryProject_Finish(c)
    \/ \E p \in Projects : useDeleteProject(p)
    \/ \E c \in Reqs : handleStart_Create(c)
    \/ \E c \in Reqs : handleStart_Update(c)
    \/ \E p \in Projects, type \in {"render_complete", "other"}, url \in {URL, NULL} :
          handleWebhook(p, type, url)
    \/ \E r \in Reqs : stepDo(r)

Spec == Init /\ [][Next]_vars

\* Project creation, the POST /start it issues and the runs it starts, with
\* no other request.
StartNext ==
    \/ \E c \in Reqs, p \in Projects : useCreateProject_Insert(c, p)
    \/ \E c \in Reqs : useCreateProject_Finish(c)
    \/ \E c \in Reqs : handleStart_Create(c)
    \/ \E c \in Reqs : handleStart_Update(c)
    \/ \E r \in Reqs : stepDo(r)

SpecStart == Init /\ [][StartNext]_vars

\* One project's run on the engine, with crashes and re-entry.
EngineNext ==
    \/ \E p \in Projects : useCreateProject_Insert(1, p)
    \/ useCreateProject_Finish(1)
    \/ handleStart_Create(1)
    \/ handleStart_Update(1)
    \/ stepDo_Cached(1)
    \/ stepDo_Start(1)
    \/ stepDo_Success(1)
    \/ stepDo_Failure(1)
    \/ Crash(1)

SpecEngine == Init /\ [][EngineNext]_vars

\* Concurrent runs: every request slot has created its own project and its
\* POST /start has been answered, so one run per project is active; the runs
\* then execute their steps in any interleaving.
PairInit ==
    /\ variant \in {"app", "worker"}
    /\ rows = [p \in Reqs |-> [NewRow("processing") EXCEPT !.workflow_id = p]]
    /\ usedIds = Reqs
    /\ storage = [p \in Reqs |-> {}]
    /\ req = [c \in Reqs |-> [kind |-> "create", proj |-> c, pc |-> "done"]]
    /\ run = [c \in Reqs |-> [NoRun EXCEPT !.state = "running"]]
    /\ crashes = 0
    /\ webhooks = 0
    /\ GatherIdle /\ TimelineIdle /\ RenderIdle /\ VoiceIdle /\ HttpIdle /\ AdaptersIdle

PairNext == \E r \in Reqs : stepDo(r)

SpecPair == PairInit /\ [][PairNext]_vars

\* ------------------------------------------------- gather-stock-media
\* Outcome of one stock-media call: a response with `count` media items, a
\* response without items, a non-ok (error) response, or a request that fails
\* (fetch / response.json() rejects).
CallOutcomes ==
    {[kind |-> "media", count |-> k] : k \in 1..MaxMedia}
    \cup {[kind |-> x, count |-> 0] : x \in {"empty", "error_response", "throw"}}

\* The media items the provider returns for the search of section index i.
SearchResult(i, k) == [j \in 1..k |-> [id |-> <<i, j>>, type |-> "video"]]

\* app: the for loop over script.sections; a non-ok response pushes an empty
\* media list and continues, a rejected fetch leaves the work function.
RECURSIVE GatherLoop(_, _, _, _)
GatherLoop(i, n, calls, mediaResults) ==
    IF i > n THEN [kind |-> "ok", value |-> mediaResults]
    ELSE IF calls[i].kind = "throw" THEN [kind |-> "failed"]
    ELSE IF calls[i].kind = "error_response"
    THEN GatherLoop(i + 1, n, calls,
                    Append(mediaResults, [sectionIndex |-> i - 1, media |-> << >>]))
    ELSE GatherLoop(i + 1, n, calls,
                    Append(mediaResults,
                           [sectionIndex |-> i - 1,
                            media |-> SearchResult(i - 1, calls[i].count)]))

GatherApp(n, calls) == GatherLoop(1, n, calls, << >>)

\* worker: one search for the whole script inside try/catch; the videos of a
\* successful response are mapped to {id, url, duration, provider}, anything
\* else gives [].
GatherWorker(n, calls) ==
    IF calls[1].kind = "media"
    THEN [kind |-> "ok",
          value |-> [j \in 1..calls[1].count |->
                        [id |-> SearchResult(0, calls[1].count)[j].id,
                         provider |-> "pexels"]]]
    ELSE [kind |-> "ok", value |-> << >>]

GatherStockMedia(v, n, calls) ==
    IF v = "app" THEN GatherApp(n, calls) ELSE GatherWorker(n, calls)

\* Number of stock-media calls the step makes for a script of n sections.
NumCalls(v, n) == IF v = "app" THEN n ELSE 1

GatherInit ==
    /\ MainInit
    /\ TimelineIdle /\ RenderIdle /\ VoiceIdle /\ HttpIdle /\ AdaptersIdle
    /\ gScript \in 1..MaxSections
    /\ gCalls \in [1..NumCalls(variant, gScript) -> CallOutcomes]
    /\ gResult = Idle

\* The work function of gather-stock-media runs on the script.
gatherStockMedia ==
    /\ gResult.kind = "idle"
    /\ gResult' = GatherStockMedia(variant, gScript, gCalls)
    /\ UNCHANGED <<mainVars, gScript, gCalls, timelineVars, render, voice, http, adapterVars>>

SpecGather == GatherInit /\ [][gatherStockMedia]_vars


\* --------------------------------------------------- assemble-timeline
TitleDuration   == 3      \* const titleDuration = 3
LabelLength     == 2      \* length: 2 of a section header
EndCardDuration == 3      \* const endCardDuration = 3
DefaultSectionDuration == 10    \* section.duration || 10

\* The sections a script can hold: a duration in seconds and the visualCues
\* text ("" when the generated JSON has none).
Durations == {15, 30}
Sections == [duration : Durations, visualCues : {"", "cue"}]

\* The scripts of 1..MaxSections sections.
Scripts == UNION {[1..n -> Sections] : n \in 1..MaxSections}

\* The results gather-stock-media can hand to assemble-timeline for a script
\* of n sections: the app's list has one entry per section holding that
\* section's search result, the worker's list is the flat result of its one
\* search.
GatherResults(v, n) ==
    IF v = "app"
    THEN {[i \in 1..n |-> [sectionIndex |-> i - 1,
                            media |-> SearchResult(i - 1, cnt[i])]] :
             cnt \in [1..n -> 0..MaxMedia]}
    ELSE {[j \in 1..k |-> [id |-> SearchResult(0, k)[j].id, provider |-> "pexels"]] :
             k \in 0..MaxMedia}

\* What the loop adds to currentTime for a section: section.duration in the
\* app, section.duration || 10 in the worker.
SectionDuration(v, section) ==
    IF v = "worker" /\ section.duration = 0
    THEN DefaultSectionDuration
    ELSE section.duration

\* currentTime when the loop reaches section i (1-based).
RECURSIVE TimeBefore(_, _, _)
TimeBefore(v, script, i) ==
    IF i = 1 THEN 0
    ELSE TimeBefore(v, script, i - 1) + SectionDuration(v, script[i - 1])

\* sectionMedia.find((m) => m.sectionIndex === i): the first matching entry,
\* or none.
FindMedia(sectionMedia, idx) ==
    LET hits == {k \in 1..Len(sectionMedia) : sectionMedia[k].sectionIndex = idx}
    IN  IF hits = {} THEN << >>
        ELSE sectionMedia[CHOOSE k \in hits : \A m \in hits : k <= m].media

\* if (i > 0 && section.visualCues): the header is pushed for a section after
\* the first whose visualCues is a non-empty string.
AppHasLabel(script, i) == i > 1 /\ script[i].visualCues # ""

\* app: the for loop of assemble-timeline, section by section (i is 1-based).
RECURSIVE AppLoop(_, _, _, _, _)
AppLoop(i, script, sectionMedia, videoClips, textOverlays) ==
    IF i > Len(script) THEN [videoClips |-> videoClips, textOverlays |-> textOverlays]
    ELSE
      LET section     == script[i]
          media       == FindMedia(sectionMedia, i - 1)
          currentTime == TimeBefore("app", script, i)
          clips == IF Len(media) > 0
                   THEN Append(videoClips,
                               [section |-> i - 1, src |-> media[1].id,
                                start |-> currentTime, length |-> section.duration])
                   ELSE videoClips
          overlays == IF AppHasLabel(script, i)
                      THEN Append(textOverlays,
                                  [kind |-> "label", style |-> "minimal",
                                   start |-> currentTime, length |-> LabelLength])
                      ELSE textOverlays
      IN  AppLoop(i + 1, script, sectionMedia, clips, overlays)

AssembleApp(script, sectionMedia) ==
    LET total == TimeBefore("app", script, Len(script) + 1)
        title == [kind |-> "title", style |-> "future",
                  start |-> 0, length |-> TitleDuration]
        body  == AppLoop(1, script, sectionMedia, << >>, <<title>>)
        end   == [kind |-> "end", style |-> "future",
                  start |-> total - EndCardDuration, length |-> EndCardDuration]
    IN  [kind |-> "ok",
         overlays |-> Append(body.textOverlays, end),
         clips |-> body.videoClips]

\* stockMedia[index % stockMedia.length] (index 0-based, result 1-based).
StockClipIndex(index, n) == (index % n) + 1

\* worker: the for loop of assemble-timeline; overlay: [] is a literal.
RECURSIVE WorkerLoop(_, _, _, _)
WorkerLoop(index, sections, stockMedia, videoClips) ==
    IF index >= Len(sections) THEN videoClips
    ELSE
      LET section     == sections[index + 1]
          currentTime == TimeBefore("worker", sections, index + 1)
          clips == IF Len(stockMedia) > 0
                   THEN Append(videoClips,
                               [section |-> index,
                                src |-> stockMedia[StockClipIndex(index, Len(stockMedia))].id,
                                start |-> currentTime,
                                length |-> SectionDuration("worker", section)])
                   ELSE videoClips
      IN  WorkerLoop(index + 1, sections, stockMedia, clips)

AssembleWorker(script, stockMedia) ==
    [kind |-> "ok", overlays |-> << >>,
     clips |-> WorkerLoop(0, script, stockMedia, << >>)]

AssembleTimeline(v, script, media) ==
    IF v = "app" THEN AssembleApp(script, media) ELSE AssembleWorker(script, media)

TimelineInit ==
    /\ MainInit
    /\ GatherIdle /\ RenderIdle /\ VoiceIdle /\ HttpIdle /\ AdaptersIdle
    /\ tScript \in Scripts
    /\ tMedia \in GatherResults(variant, Len(tScript))
    /\ tTimeline = Idle

\* The work function of assemble-timeline runs on the script and the media.
assembleTimeline ==
    /\ tTimeline = Idle
    /\ tTimeline' = AssembleTimeline(variant, tScript, tMedia)
    /\ UNCHANGED <<mainVars, gatherVars, tScript, tMedia, render, voice, http, adapterVars>>

SpecTimeline == TimelineInit /\ [][assembleTimeline]_vars

\* ---- the whole timeline of the step, executed more than once
\* voiceover.duration || duration (0 stands for a missing or zero duration).
VoiceoverLength(voiceover, duration) ==
    IF voiceover = 0 THEN duration ELSE voiceover

\* The duration of the timeline: the app computes totalDuration as the sum of
\* the section durations (its end card is placed against it); the worker
\* writes the target duration of the run into timeline.duration.
TotalDuration(v, script, duration) ==
    IF v = "app" THEN TimeBefore("app", script, Len(script) + 1) ELSE duration

\* The timeline assemble-timeline returns: overlays and video clips, the
\* duration, and the voiceover (the app's soundtrack has no start or length,
\* the worker's audio track holds one clip from 0).
AssembleStep(v, script, media, voiceover, duration) ==
    LET body == AssembleTimeline(v, script, media)
    IN  [overlays |-> body.overlays,
         clips    |-> body.clips,
         duration |-> TotalDuration(v, script, duration),
         audio    |-> IF v = "app" THEN << >>
                      ELSE << [src |-> "voiceover", start |-> 0,
                               length |-> VoiceoverLength(voiceover, duration)] >>,
         soundtrack |-> IF v = "app" THEN "voiceover" ELSE NULL]

\* A step that takes the media it uses out of the list it was given.
MediaAfterAssemble_Shifted(media) ==
    IF Len(media) > 0 THEN Tail(media) ELSE media

\* The media list after the step: the loop only reads it (media.media[0],
\* stockMedia[index % stockMedia.length]).
MediaAfterAssemble(media) == media

\* Section durations from 2 seconds up; voiceover durations as measured by
\* the speech service, independent of the target duration.
ShortSections == [duration : {2, 15}, visualCues : {"", "cue"}]
ShortScripts == UNION {[1..n -> ShortSections] : n \in 1..MaxSections}
VoiceoverDurations == {0, 20, 40}
AssemblyTargets == {30}

AssemblyInit ==
    /\ MainInit
    /\ GatherIdle /\ RenderIdle /\ VoiceIdle /\ HttpIdle /\ AdaptersIdle
    /\ tScript \in ShortScripts
    /\ tMedia \in GatherResults(variant, Len(tScript))
    /\ \E voiceover \in VoiceoverDurations, duration \in AssemblyTargets :
          tTimeline = [kind |-> "executions", media |-> tMedia,
                       voiceover |-> voiceover, duration |-> duration,
                       timelines |-> << >>]

\* One execution of the work function of assemble-timeline (a re-attempt or
\* a re-entry of run() executes it again on the same step inputs).
executeAssembleTimeline ==
    /\ tTimeline # Idle /\ tTimeline.kind = "executions"
    /\ Len(tTimeline.timelines) < MaxExecutions
    /\ tTimeline' =
         [tTimeline EXCEPT !.timelines =
            Append(@, AssembleStep(variant, tScript, tMedia,
                                   tTimeline.voiceover, tTimeline.duration))]
    /\ tMedia' = MediaAfterAssemble(tMedia)
    /\ UNCHANGED <<mainVars, gatherVars, tScript, render, voice, http, adapterVars>>

SpecAssembly == AssemblyInit /\ [][executeAssembleTimeline]_vars


\* ------------------------------------------------------- render stage
MaxAttemptsApp    == 60     \* const maxAttempts = 60 (wait-for-render)
MaxAttemptsWorker == 20     \* while (attempts < 20) (render-video)

MaxAttempts(v) == IF v = "app" THEN MaxAttemptsApp ELSE MaxAttemptsWorker

\* What one status request can come back with: a non-ok HTTP response, or a
\* status document saying the job is still in progress (queued, fetching,
\* rendering, saving), done with the output url, done without a url, or
\* failed.
PollResponses == {"not_ok", "pending", "done", "done_nourl", "failed"}

\* The step the render job is submitted in, and the step that polls it.
SubmitStep(v) == IF v = "app" THEN "submit-render" ELSE "render-video"
PollStep(v) == IF v = "app" THEN "wait-for-render" ELSE "render-video"

\* A loop body that treats a failed job like one still in progress.
PollOutcome_IgnoreFailed(v, resp) ==
    IF v = "app"
    THEN CASE resp = "not_ok" -> "throw_check"
           [] resp = "done"   -> "return"
           [] OTHER           -> "continue"
    ELSE CASE resp \in {"done", "done_nourl"} -> "return"
           [] OTHER                           -> "continue"

\* One iteration of the poll loop on a status response.
\* app:    !response.ok -> throw; done && url -> return; failed -> throw;
\*         otherwise sleep and attempts++.
\* worker: !ok -> attempts++ and continue; done -> return (whatever url);
\*         failed -> throw; otherwise attempts++.
PollOutcome(v, resp) ==
    IF v = "app"
    THEN CASE resp = "not_ok" -> "throw_check"
           [] resp = "done"   -> "return"
           [] resp = "failed" -> "throw_failed"
           [] OTHER           -> "continue"
    ELSE CASE resp \in {"done", "done_nourl"} -> "return"
           [] resp = "failed"                 -> "throw_failed"
           [] OTHER                           -> "continue"

\* The url a returning loop hands back.
ReturnedUrl(resp) == IF resp = "done" THEN URL ELSE NULL

\* The run is at the render stage: timeline assembled, nothing submitted yet.
RenderStart ==
    [kind |-> "render", phase |-> "submit", tries |-> 0, submits |-> 0,
     attempts |-> 0, polls |-> 0, last |-> "none", error |-> "none",
     url |-> NULL]

\* The work function of step s throws err: the engine re-attempts the step
\* while its retry policy allows (the work function starts over), otherwise
\* the step fails and the run ends with that error.
StepThrows(rec, s, err) ==
    IF rec.tries < RetryLimit(variant, s)
    THEN [rec EXCEPT !.phase = IF s = SubmitStep(variant) THEN "submit" ELSE "poll",
                     !.tries = @ + 1, !.attempts = 0, !.polls = 0,
                     !.error = err]
    ELSE [rec EXCEPT !.phase = "failed", !.error = err]

\* POST /render: a non-ok answer throws "Render submission failed"; otherwise
\* the job exists and polling starts with attempts = 0.
submitRender ==
    /\ render.kind = "render" /\ render.phase = "submit"
    /\ \E ok \in BOOLEAN :
          LET sent == [render EXCEPT !.submits = @ + 1]
          IN  render' = IF ok
                        THEN [sent EXCEPT !.phase = "poll", !.attempts = 0,
                                          !.polls = 0, !.last = "none",
                                          !.tries = IF variant = "app" THEN 0 ELSE @]
                        ELSE StepThrows(sent, SubmitStep(variant), "submit_failed")
    /\ UNCHANGED <<mainVars, gatherVars, timelineVars, voice, http, adapterVars>>

\* One pass through the while loop: the status request and what follows it.
pollStatus ==
    /\ render.kind = "render" /\ render.phase = "poll"
    /\ render.attempts < MaxAttempts(variant)
    /\ \E resp \in PollResponses :
          LET polled == [render EXCEPT !.polls = @ + 1, !.last = resp]
              out    == PollOutcome(variant, resp)
          IN  render' =
                CASE out = "return" ->
                       [polled EXCEPT !.phase = "done", !.url = ReturnedUrl(resp)]
                  [] out = "throw_failed" ->
                       StepThrows(polled, PollStep(variant), "render_failed")
                  [] out = "throw_check" ->
                       StepThrows(polled, PollStep(variant), "check_failed")
                  [] OTHER ->
                       [polled EXCEPT !.attempts = @ + 1]
    /\ UNCHANGED <<mainVars, gatherVars, timelineVars, voice, http, adapterVars>>

\* The loop condition is false: "Render timed out ..." is thrown.
pollTimeout ==
    /\ render.kind = "render" /\ render.phase = "poll"
    /\ render.attempts >= MaxAttempts(variant)
    /\ render' = StepThrows(render, PollStep(variant), "timeout")
    /\ UNCHANGED <<mainVars, gatherVars, timelineVars, voice, http, adapterVars>>

RenderInit ==
    /\ MainInit
    /\ GatherIdle /\ TimelineIdle /\ VoiceIdle /\ HttpIdle /\ AdaptersIdle
    /\ render = RenderStart

RenderNext == submitRender \/ pollStatus \/ pollTimeout

SpecRender == RenderInit /\ [][RenderNext]_vars

\* The run is not suspended forever: a step that can continue does.
SpecRenderLive == SpecRender /\ WF_vars(RenderNext)


\* -------------------------------------------------- generate-voiceover
VoiceoverInitialDelay == 10     \* delay: "10 seconds"

\* HTTP statuses the speech provider (ElevenLabs) answers a synthesis with.
ProviderStatuses == {200, 401, 422, 429, 500, 502, 503}

\* audio-gen handleGenerate: the status of its response for a provider
\* status.  handleElevenLabsError turns the provider status into an Error
\* message, the catch of handleGenerate turns the message into a response.
HandleGenerateStatus(up) ==
    CASE up = 200 -> 200
      [] up = 401 -> 401                   \* 'Invalid ElevenLabs API key'
      [] up = 422 -> 422                   \* 'Invalid request parameters'
      [] up = 429 -> 429                   \* 'rate limit'
      [] up \in {500, 502, 503} -> 503     \* 'temporarily unavailable'
      [] OTHER -> 500

\* The work function of generate-voiceover on a response of the speech
\* service: `if (!response.ok) throw`, whatever the status.
VoiceoverThrows(status) == status # 200

\* The delay before re-attempt number n (1-based) under
\* { delay: "10 seconds", backoff: "exponential" }.
BackoffDelay(n) == VoiceoverInitialDelay * (2 ^ (n - 1))

\* The run is at generate-voiceover: no attempt made yet.  log holds the
\* response status of every attempt so far.
VoiceStart ==
    [kind |-> "voice", phase |-> "work", tries |-> 0, log |-> << >>,
     delay |-> 0, result |-> 0]

\* One attempt of generate-voiceover: the work function runs, the speech
\* service answers; a thrown error is re-attempted while the step's retry
\* policy allows, otherwise the step fails and the run is aborted.
generateVoiceover ==
    /\ voice.kind = "voice" /\ voice.phase = "work"
    /\ \E up \in ProviderStatuses :
          LET status == HandleGenerateStatus(up)
              ran    == [voice EXCEPT !.log = Append(@, status)]
          IN  voice' =
                IF ~ VoiceoverThrows(status)
                THEN [ran EXCEPT !.phase = "done", !.result = Len(ran.log)]
                ELSE IF ran.tries < RetryLimit(variant, "generate-voiceover")
                THEN [ran EXCEPT !.tries = @ + 1,
                                 !.delay = BackoffDelay(ran.tries + 1)]
                ELSE [ran EXCEPT !.phase = "failed"]
    /\ UNCHANGED <<mainVars, gatherVars, timelineVars, render, http, adapterVars>>

VoiceInit ==
    /\ MainInit
    /\ GatherIdle /\ TimelineIdle /\ RenderIdle /\ HttpIdle /\ AdaptersIdle
    /\ voice = VoiceStart

SpecVoice == VoiceInit /\ [][generateVoiceover]_vars


\* ---------------------------------------------------- worker endpoints
\* The x-api-key header of a request: absent, a key that is in no row of
\* api_keys, the key of a row with enabled = 0, the key of an enabled row.
Keys == {"none", "unknown", "disabled", "enabled"}

\* SELECT ... FROM api_keys WHERE key = ? AND enabled = 1 (.first()); db says
\* whether the query itself fails ("error"), or only the later UPDATE of
\* last_used_at does ("update_fails").
KeyLookup(key, db) ==
    IF db = "error" THEN "throws"
    ELSE IF key = "enabled" THEN "row"
    ELSE "null"

\* An authenticate() that awaits the UPDATE of last_used_at inside its try.
Authenticate_AwaitedUpdate(path, key, db) ==
    IF path = "/webhook" THEN TRUE
    ELSE IF path = "/health" THEN TRUE
    ELSE IF key = "none" THEN FALSE
    ELSE KeyLookup(key, db) = "row" /\ db # "update_fails"

\* authenticate() of video-workflow and of render-service: /webhook and
\* /health pass; a missing header, a lookup without result and a failing
\* lookup are refused.  The UPDATE of last_used_at (video-workflow) is not
\* awaited and its rejection is caught and logged: the result does not
\* depend on it.
Authenticate(path, key, db) ==
    IF path = "/webhook" THEN TRUE
    ELSE IF path = "/health" THEN TRUE
    ELSE IF key = "none" THEN FALSE
    ELSE KeyLookup(key, db) = "row"

\* authenticate() of audio-gen: its module is not part of the sources; the
\* documented rule is used (every endpoint but /health and /webhook needs the
\* key of an enabled row).
AuthenticateAudioGen(path, key, db) ==
    IF path \in {"/webhook", "/health"} THEN TRUE
    ELSE IF key = "none" THEN FALSE
    ELSE KeyLookup(key, db) = "row"

\* rateLimit() of render-service: no limiter configured, or a failing limiter
\* (fail open), lets the request pass; only an answer allowed = false stops it.
RateLimitAllows(limiter) == limiter # "denied"

\* The fields an endpoint's validation asks for in the JSON body.
Required(worker, path) ==
    CASE worker = "video-workflow" /\ path = "/start" ->
           {"projectId", "prompt", "duration"}
      [] worker = "render-service" /\ path = "/render" ->
           {"timeline", "instance_id", "project_id"}
      [] worker = "audio-gen" /\ path = "/generate" -> {"text", "instance_id"}
      [] worker = "stock-media" /\ path = "/search" -> {"instance_id", "query"}
      [] OTHER -> {}

\* A request with everything in order; the actions vary it.
\*   json    the body parses            fields  required fields present
\*   event   what a webhook reports     job     the render job is in KV
\*   fail    the awaited call that throws ("none": none does)
\*   limiter the rate limiter's answer  up      the speech provider's status
\*   inst    instance_id names an active instance
BaseRequest(worker, path) ==
    [kind |-> "request", worker |-> worker, path |-> path,
     key |-> "enabled", db |-> "ok", json |-> TRUE,
     fields |-> Required(worker, path), event |-> "other", job |-> TRUE,
     fail |-> "none", limiter |-> "unconfigured", up |-> 200, inst |-> TRUE,
     proj |-> 1]

\* A response: HTTP status, the effects the handler had before answering, and
\* the projects table it leaves.
Response(status, effects, tbl) ==
    [status |-> status, effects |-> effects, rows |-> tbl]

\* A validation that only asks for projectId.
StartBodyValid_ProjectOnly(fields) == "projectId" \in fields

\* if (!body.projectId || !body.prompt || !body.duration) return 400
StartBodyValid(fields) == {"projectId", "prompt", "duration"} \subseteq fields

\* video-workflow handleStart (as one call): request.json(), validation,
\* VIDEO_WORKFLOW.create, UPDATE projects, 200; any throw -> 500 START_ERROR.
StartHandler(q, tbl) ==
    IF ~ q.json THEN Response(500, {}, tbl)
    ELSE IF ~ StartBodyValid(q.fields) THEN Response(400, {}, tbl)
    ELSE IF q.fail = "create" THEN Response(500, {}, tbl)
    ELSE IF q.fail = "db" THEN Response(500, {"workflow_create"}, tbl)
    ELSE Response(200, {"workflow_create", "row_update"},
                  UpdateRow(tbl, q.proj,
                            [status |-> StartStatus, workflow_id |-> "instance"]))

\* video-workflow handleStatus.
StatusHandler(q, tbl) ==
    IF q.fail = "db" THEN Response(500, {}, tbl)
    ELSE IF q.proj \in DOMAIN tbl THEN Response(200, {}, tbl)
    ELSE Response(404, {}, tbl)

\* video-workflow handleWebhook: any throw (request.json(), the UPDATE) is
\* answered 500 WEBHOOK_ERROR.
WebhookHandler(q, tbl) ==
    IF ~ q.json THEN Response(500, {}, tbl)
    ELSE IF q.event = "render_complete"
    THEN IF q.fail = "db" THEN Response(500, {}, tbl)
         ELSE Response(200, {"row_update"},
                       UpdateRow(tbl, q.proj,
                                 [output_url |-> URL, status |-> "complete"]))
    ELSE Response(200, {}, tbl)

\* video-workflow fetch: authenticate, then the routes.
VideoWorkflowFetch(q, tbl) ==
    IF ~ Authenticate(q.path, q.key, q.db) THEN Response(401, {}, tbl)
    ELSE CASE q.path = "/health"  -> Response(200, {}, tbl)
           [] q.path = "/start"   -> StartHandler(q, tbl)
           [] q.path = "/status"  -> StatusHandler(q, tbl)
           [] q.path = "/webhook" -> WebhookHandler(q, tbl)
           [] OTHER               -> Response(404, {}, tbl)

\* render-service handleRender.
RenderHandler(q, tbl) ==
    IF ~ q.json THEN Response(500, {}, tbl)
    ELSE IF q.fields # Required("render-service", "/render") THEN Response(400, {}, tbl)
    ELSE IF q.fail \in {"provider", "kv"} THEN Response(500, {"provider_call"}, tbl)
    ELSE Response(200, {"provider_call", "kv_write"}, tbl)

\* render-service handleStatus.
RenderStatusHandler(q, tbl) ==
    IF ~ q.job THEN Response(404, {}, tbl)
    ELSE IF q.fail \in {"provider", "kv"} THEN Response(500, {"provider_call"}, tbl)
    ELSE Response(200, {"provider_call", "kv_write"}, tbl)

\* What render-service handleWebhook did before answering.
RenderWebhookEffects(q) ==
    IF ~ q.json \/ ~ q.job \/ q.fail = "kv" THEN {}
    ELSE IF q.event = "done"
    THEN CASE q.fail = "download" -> {"kv_write", "provider_call"}
           [] q.fail = "storage"  -> {"kv_write", "provider_call"}
           [] q.fail = "forward"  -> {"kv_write", "provider_call", "storage_write"}
           [] OTHER -> {"kv_write", "provider_call", "storage_write", "forward"}
    ELSE IF q.event = "failed" /\ q.fail # "forward" THEN {"kv_write", "forward"}
    ELSE {"kv_write"}

\* render-service handleWebhook: every path, the catch included, ends in
\* successResponse (200).
RenderWebhookHandler(q, tbl) == Response(200, RenderWebhookEffects(q), tbl)

\* render-service fetch: authenticate, rateLimit, then the routes.
RenderServiceFetch(q, tbl) ==
    IF ~ Authenticate(q.path, q.key, q.db) THEN Response(401, {}, tbl)
    ELSE IF ~ RateLimitAllows(q.limiter) THEN Response(429, {}, tbl)
    ELSE CASE q.path = "/health"  -> Response(200, {}, tbl)
           [] q.path = "/render"  -> RenderHandler(q, tbl)
           [] q.path = "/status"  -> RenderStatusHandler(q, tbl)
           [] q.path = "/webhook" -> RenderWebhookHandler(q, tbl)
           [] OTHER               -> Response(404, {}, tbl)

\* audio-gen handleGenerate: validation, instance configuration, the provider
\* call, the upload to R2.
GenerateHandler(q, tbl) ==
    IF ~ q.json THEN Response(500, {}, tbl)
    ELSE IF q.fields # Required("audio-gen", "/generate") THEN Response(400, {}, tbl)
    ELSE IF ~ q.inst THEN Response(404, {}, tbl)
    ELSE IF HandleGenerateStatus(q.up) # 200
    THEN Response(HandleGenerateStatus(q.up), {"provider_call"}, tbl)
    ELSE IF q.fail = "storage" THEN Response(500, {"provider_call"}, tbl)
    ELSE Response(200, {"provider_call", "storage_write"}, tbl)

\* audio-gen fetch: authenticate, then the routes.
AudioGenFetch(q, tbl) ==
    IF ~ AuthenticateAudioGen(q.path, q.key, q.db) THEN Response(401, {}, tbl)
    ELSE CASE q.path = "/generate" -> GenerateHandler(q, tbl)
           [] q.path = "/health"   -> Response(200, {}, tbl)
           [] OTHER                -> Response(404, {}, tbl)

\* stock-media handleSearch (no cache hit): validation, validateInstanceId,
\* the provider search, the cache write.
SearchHandler(q, tbl) ==
    IF ~ q.json THEN Response(500, {}, tbl)
    ELSE IF q.fields # Required("stock-media", "/search") THEN Response(400, {}, tbl)
    ELSE IF ~ q.inst THEN Response(403, {}, tbl)
    ELSE IF q.fail = "provider" THEN Response(500, {"provider_call"}, tbl)
    ELSE Response(200, {"provider_call", "kv_write"}, tbl)

\* stock-media fetch: the routes; the handler does not call authenticate.
StockMediaFetch(q, tbl) ==
    CASE q.path = "/health" -> Response(200, {}, tbl)
      [] q.path = "/search" -> SearchHandler(q, tbl)
      [] OTHER              -> Response(404, {}, tbl)

\* The request is served: its response is recorded and the table updated.
Serve(q, resp) ==
    /\ http' = [request |-> q, status |-> resp.status, effects |-> resp.effects]
    /\ rows' = resp.rows
    /\ UNCHANGED <<variant, usedIds, storage, req, run, crashes, webhooks,
                   gatherVars, timelineVars, render, voice, adapterVars>>

\* One request is followed, from the state the workers start in.
NoneServed == http.status = 0

\* The credentials a request can come with.
Credentials ==
    {[key |-> k, db |-> d] : k \in Keys, d \in {"ok", "error", "update_fails"}}

videoWorkflowFetch ==
    /\ NoneServed
    /\ \E path \in {"/health", "/start", "/status", "/webhook", "/other"},
          cred \in Credentials, json \in BOOLEAN, p \in Projects,
          fields \in SUBSET Required("video-workflow", "/start"),
          event \in {"render_complete", "other"}, fail \in {"none", "create", "db"} :
           LET q == [BaseRequest("video-workflow", path) EXCEPT
                       !.key = cred.key, !.db = cred.db, !.proj = p,
                       !.json = IF path \in {"/start", "/webhook"} THEN json ELSE TRUE,
                       !.fields = IF path = "/start" THEN fields ELSE {},
                       !.event = IF path = "/webhook" THEN event ELSE "other",
                       !.fail = IF path \in {"/start", "/status", "/webhook"}
                                THEN fail ELSE "none"]
           IN  Serve(q, VideoWorkflowFetch(q, rows))

renderServiceFetch ==
    /\ NoneServed
    /\ \E path \in {"/health", "/render", "/status", "/webhook", "/other"},
          cred \in Credentials, json \in BOOLEAN, job \in BOOLEAN,
          complete \in BOOLEAN, event \in {"done", "failed", "other"},
          limiter \in {"unconfigured", "allowed", "denied", "error"},
          fail \in {"none", "provider", "kv", "download", "storage", "forward"} :
           LET q == [BaseRequest("render-service", path) EXCEPT
                       !.key = cred.key, !.db = cred.db, !.limiter = limiter,
                       !.json = IF path \in {"/render", "/webhook"} THEN json ELSE TRUE,
                       !.fields = IF path = "/render" /\ ~ complete THEN {"timeline"} ELSE @,
                       !.job = IF path \in {"/status", "/webhook"} THEN job ELSE TRUE,
                       !.event = IF path = "/webhook" THEN event ELSE "other",
                       !.fail = IF path \in {"/render", "/status", "/webhook"}
                                THEN fail ELSE "none"]
           IN  Serve(q, RenderServiceFetch(q, rows))

audioGenFetch ==
    /\ NoneServed
    /\ \E path \in {"/health", "/generate", "/other"},
          cred \in Credentials, json \in BOOLEAN, complete \in BOOLEAN,
          inst \in BOOLEAN, up \in ProviderStatuses, fail \in {"none", "storage"} :
           LET q == [BaseRequest("audio-gen", path) EXCEPT
                       !.key = cred.key, !.db = cred.db,
                       !.json = IF path = "/generate" THEN json ELSE TRUE,
                       !.fields = IF path = "/generate" /\ ~ complete THEN {"text"} ELSE @,
                       !.inst = IF path = "/generate" THEN inst ELSE TRUE,
                       !.up = IF path = "/generate" THEN up ELSE 200,
                       !.fail = IF path = "/generate" THEN fail ELSE "none"]
           IN  Serve(q, AudioGenFetch(q, rows))

stockMediaFetch ==
    /\ NoneServed
    /\ \E path \in {"/health", "/search", "/other"},
          cred \in Credentials, json \in BOOLEAN, complete \in BOOLEAN,
          inst \in BOOLEAN, fail \in {"none", "provider"} :
           LET q == [BaseRequest("stock-media", path) EXCEPT
                       !.key = cred.key, !.db = cred.db,
                       !.json = IF path = "/search" THEN json ELSE TRUE,
                       !.fields = IF path = "/search" /\ ~ complete THEN {"query"} ELSE @,
                       !.inst = IF path = "/search" THEN inst ELSE TRUE,
                       !.fail = IF path = "/search" THEN fail ELSE "none"]
           IN  Serve(q, StockMediaFetch(q, rows))

\* The workers are deployed and the projects exist (rows as useCreateProject
\* inserts them); no request has been served yet.
HttpInit ==
    /\ variant \in {"app", "worker"}
    /\ rows = [p \in Projects |-> NewRow("starting")]
    /\ usedIds = Projects
    /\ storage = [p \in Projects |-> {}]
    /\ req = [c \in Reqs |-> NoReq]
    /\ run = [c \in Reqs |-> NoRun]
    /\ crashes = 0
    /\ webhooks = 0
    /\ GatherIdle /\ TimelineIdle /\ RenderIdle /\ VoiceIdle /\ AdaptersIdle
    /\ http = [request |-> BaseRequest("none", "/"), status |-> 0, effects |-> {}]

HttpNext ==
    \/ videoWorkflowFetch
    \/ renderServiceFetch
    \/ audioGenFetch
    \/ stockMediaFetch

SpecHttp == HttpInit /\ [][HttpNext]_vars

\* ================================================================ claims


\* ---------------------------------------------------- generate-script
\* The text the script provider returns, by how it parses:
\*   ""            nothing (also what an error body without content gives),
\*   "prose"       text that is not JSON,
\*   "fenced_json" a script document inside a ```json code block,
\*   "json_script" a script document,
\*   "json_other"  valid JSON that is not a script document.
Texts == {"", "prose", "fenced_json", "json_script", "json_other"}

\* The provider's HTTP response: a 2xx with a text, or an error status.
ScriptResponses ==
    {[ok |-> TRUE, text |-> t] : t \in Texts} \cup {[ok |-> FALSE, text |-> ""]}

Prompts == {"solar power", "history of jazz music in new orleans"}

TargetDurations == {30, 60, 90}

\* prompt.split(' ')
Words(prompt) ==
    IF prompt = "solar power" THEN <<"solar", "power">>
    ELSE <<"history", "of", "jazz", "music", "in", "new", "orleans">>

\* .slice(0, n)
Slice(seq, n) == SubSeq(seq, 1, IF Len(seq) < n THEN Len(seq) ELSE n)

\* content.replace(/```json\n?/g, '').replace(/```\n?/g, '').trim()
CleanContent(text) == IF text = "fenced_json" THEN "json_script" ELSE text

\* Whether JSON.parse(text) returns (TRUE) or throws (FALSE).
JsonParses(text) == text \in {"json_script", "json_other"}

\* The value JSON.parse returns for a text that parses.
JsonParse(text) ==
    IF text = "json_script"
    THEN [title |-> "Title",
          sections |-> << [narration |-> "first", duration |-> 10,
                           visualCues |-> "cue", keywords |-> <<"k1">>],
                          [narration |-> "second", duration |-> 10,
                           visualCues |-> "cue", keywords |-> <<"k2">>] >>]
    ELSE [title |-> NULL, sections |-> << >>]

\* The script the worker's catch block builds when JSON.parse throws.
FallbackScript(content, prompt, duration) ==
    [title |-> prompt,
     sections |-> << [narration  |-> IF content # "" THEN content ELSE prompt,
                      duration   |-> duration,
                      visualCues |-> "General footage",
                      keywords   |-> Slice(Words(prompt), 5)] >>]

NoScript == [title |-> NULL, sections |-> << >>]

Returned(script) == [result |-> "returned", script |-> script, error |-> NULL]
Thrown(err) == [result |-> "thrown", script |-> NoScript, error |-> err]

\* generate-script of the app: a non-ok response throws, result.text that
\* does not parse throws, otherwise the parsed value is returned.
GenerateScriptApp(resp) ==
    IF ~ resp.ok THEN Thrown("Script generation failed")
    ELSE IF ~ JsonParses(resp.text)
    THEN Thrown("Failed to parse script JSON from AI response")
    ELSE Returned(JsonParse(resp.text))

\* generate-script of the worker: response.ok is not looked at; the content
\* is cleaned of code fences and parsed, and a parse error is answered with
\* the fallback script.
GenerateScriptWorker(resp, prompt, duration) ==
    LET content == resp.text
        cleanContent == CleanContent(content)
    IN  IF JsonParses(cleanContent)
        THEN Returned(JsonParse(cleanContent))
        ELSE Returned(FallbackScript(content, prompt, duration))

GenerateScript(v, resp, prompt, duration) ==
    IF v = "app" THEN GenerateScriptApp(resp)
    ELSE GenerateScriptWorker(resp, prompt, duration)

\* The run of one project from its start up to update-script-status or to
\* the end of its failure handling.
ScriptStart(resp, prompt, duration) ==
    [kind |-> "script", phase |-> "start", response |-> resp,
     prompt |-> prompt, duration |-> duration,
     script |-> NoScript, error |-> NULL,
     row |-> NewRow("processing"), stored |-> {}, ran |-> {}]

\* step.do("generate-script"): the worker also saves the script into the
\* script_json column before returning it.
generateScript ==
    /\ scriptGen # Idle /\ scriptGen.phase = "start"
    /\ LET out == GenerateScript(variant, scriptGen.response,
                                 scriptGen.prompt, scriptGen.duration)
       IN  scriptGen' =
             [scriptGen EXCEPT
                !.phase  = out.result,
                !.script = out.script,
                !.error  = out.error,
                !.ran    = @ \cup {"generate-script"},
                !.row    = IF out.result = "returned"
                           THEN StepChanges(variant, "generate-script", NULL) @@ @
                           ELSE @]
    /\ UNCHANGED <<mainVars, gatherVars, timelineVars, render, voice, http,
                   speech, conv, serviceVars>>

\* step.do("update-script-status"), reached when generate-script returned.
updateScriptStatus ==
    /\ scriptGen # Idle /\ scriptGen.phase = "returned"
    /\ scriptGen' =
         [scriptGen EXCEPT
            !.phase  = "status_updated",
            !.ran    = @ \cup {"update-script-status"},
            !.row    = StepChanges(variant, "update-script-status", NULL) @@ @,
            !.stored = IF variant = "app" THEN @ \cup {"script.json"} ELSE @]
    /\ UNCHANGED <<mainVars, gatherVars, timelineVars, render, voice, http,
                   speech, conv, serviceVars>>

\* The exception of generate-script reaches run(): the app's catch runs
\* handle-error, the worker's run() ends with it.
scriptFailure ==
    /\ scriptGen # Idle /\ scriptGen.phase = "thrown"
    /\ scriptGen' =
         [scriptGen EXCEPT
            !.phase = "errored",
            !.ran   = IF HasCatch(variant) THEN @ \cup {"handle-error"} ELSE @,
            !.row   = IF HasCatch(variant) THEN HandleErrorChanges @@ @ ELSE @]
    /\ UNCHANGED <<mainVars, gatherVars, timelineVars, render, voice, http,
                   speech, conv, serviceVars>>

ScriptInit ==
    /\ MainInit
    /\ GatherIdle /\ TimelineIdle /\ RenderIdle /\ VoiceIdle /\ HttpIdle
    /\ speech = Idle /\ conv = Idle /\ ServicesIdle
    /\ \E resp \in ScriptResponses, prompt \in Prompts, duration \in TargetDurations :
          scriptGen = ScriptStart(resp, prompt, duration)

ScriptNext == generateScript \/ updateScriptStatus \/ scriptFailure

SpecScript == ScriptInit /\ [][ScriptNext]_vars


\* ----------------------------------------- speech adapter (audio-gen)
\* The phrases the catch block of handleGenerate looks for in the message
\* of the error it caught, in the order it looks for them.
KeyedPhrases ==
    << "Invalid ElevenLabs API key", "rate limit",
       "Invalid request parameters", "temporarily unavailable" >>

Phrases == {KeyedPhrases[i] : i \in DOMAIN KeyedPhrases}

\* A message is represented by the set of keyed phrases it contains.
Messages == SUBSET Phrases

\* Statuses the provider answers a synthesis with (400 and 403 stand for the
\* statuses handleElevenLabsError has no case for).
SpeechStatuses == ProviderStatuses \cup {400, 403}

\* handleElevenLabsError: the message of the Error thrown for a provider
\* status, where detail is the message found in the provider's error body.
ElevenLabsErrorMessage(status, detail) ==
    CASE status = 401 -> {"Invalid ElevenLabs API key"}
      [] status = 422 -> {"Invalid request parameters"} \cup detail
      [] status = 429 -> {"rate limit"}
      [] status \in {500, 502, 503} -> {"temporarily unavailable"}
      [] OTHER -> detail

ErrorResponse(code, status) == [status |-> status, code |-> code]

\* The catch block of handleGenerate: the first phrase found in the message
\* decides the response; a message with none of them gives the generic one.
CatchResponse(message) ==
    IF "Invalid ElevenLabs API key" \in message
    THEN ErrorResponse("INVALID_API_KEY", 401)
    ELSE IF "rate limit" \in message
    THEN ErrorResponse("PROVIDER_RATE_LIMIT", 429)
    ELSE IF "Invalid request parameters" \in message
    THEN ErrorResponse("INVALID_PARAMETERS", 422)
    ELSE IF "temporarily unavailable" \in message
    THEN ErrorResponse("SERVICE_UNAVAILABLE", 503)
    ELSE ErrorResponse("GENERATION_ERROR", 500)

\* handleGenerate on a valid request: generateSpeech, then the upload to R2;
\* whatever is thrown on the way is answered by the catch block.
HandleGenerate(up, upload) ==
    IF up.status # 200
    THEN CatchResponse(ElevenLabsErrorMessage(up.status, up.detail))
    ELSE IF ~ upload.ok
    THEN CatchResponse(upload.message)
    ELSE ErrorResponse("OK", 200)

\* Outcomes of uploadAudioToR2: done, or an Error with some message.
Uploads ==
    {[ok |-> TRUE, message |-> {}]} \cup {[ok |-> FALSE, message |-> m] : m \in Messages}

SpeechStart(up, upload) ==
    [kind |-> "speech", upstream |-> up, upload |-> upload,
     response |-> ErrorResponse("none", 0)]

handleGenerate ==
    /\ speech # Idle /\ speech.response.status = 0
    /\ speech' = [speech EXCEPT
                    !.response = HandleGenerate(speech.upstream, speech.upload)]
    /\ UNCHANGED <<mainVars, gatherVars, timelineVars, render, voice, http,
                   scriptGen, conv, serviceVars>>

SpeechInit ==
    /\ MainInit
    /\ GatherIdle /\ TimelineIdle /\ RenderIdle /\ VoiceIdle /\ HttpIdle
    /\ scriptGen = Idle /\ conv = Idle /\ ServicesIdle
    /\ \E status \in SpeechStatuses, detail \in Messages, upload \in Uploads :
          speech = SpeechStart([status |-> status, detail |-> detail], upload)

SpecSpeech == SpeechInit /\ [][handleGenerate]_vars


\* ------------------------------------- TimelineConverter (render-service)
\* Coordinates are in hundredths: the literals 0.33 and 0.66 of
\* convertPosition.
LowThird  == 33
HighThird == 66

\* An optional value: absent (undefined), or present with a value.
None == [present |-> FALSE, value |-> 0]
Some(v) == [present |-> TRUE, value |-> v]

\* x ?? d
OrElse(opt, d) == IF opt.present THEN opt.value ELSE d

\* A track list as given by the caller: absent, or a list.
NoList == [present |-> FALSE, list |-> << >>]
List(l) == [present |-> TRUE, list |-> l]

\* timeline.tracks?.<category> || []
ListOr(tl) == IF tl.present THEN tl.list ELSE << >>

\* A converter that quantizes with the band limits on the outer side.
ConvertPosition_Exclusive(position) ==
    IF ~ position.present THEN "center"
    ELSE LET x == position.value.x
             y == position.value.y
         IN  IF y <= LowThird THEN
                 IF x <= LowThird THEN "topLeft"
                 ELSE IF x >= HighThird THEN "topRight"
                 ELSE "top"
             ELSE IF y >= HighThird THEN
                 IF x <= LowThird THEN "bottomLeft"
                 ELSE IF x >= HighThird THEN "bottomRight"
                 ELSE "bottom"
             ELSE
                 IF x <= LowThird THEN "left"
                 ELSE IF x >= HighThird THEN "right"
                 ELSE "center"

\* convertPosition
ConvertPosition(position) ==
    IF ~ position.present THEN "center"
    ELSE LET x == position.value.x
             y == position.value.y
         IN  IF y < LowThird THEN
                 IF x < LowThird THEN "topLeft"
                 ELSE IF x > HighThird THEN "topRight"
                 ELSE "top"
             ELSE IF y > HighThird THEN
                 IF x < LowThird THEN "bottomLeft"
                 ELSE IF x > HighThird THEN "bottomRight"
                 ELSE "bottom"
             ELSE
                 IF x < LowThird THEN "left"
                 ELSE IF x > HighThird THEN "right"
                 ELSE "center"

\* convertOverlayClip (the style and css fields, copied as they are, are
\* left out).
ConvertOverlayClip(clip) ==
    [asset  |-> [type    |-> IF clip.type = "text" THEN "title" ELSE "html",
                 content |-> clip.content,
                 position |-> ConvertPosition(clip.position)],
     start  |-> clip.start,
     length |-> clip.duration]

\* convertVideoClip: the transition's type becomes transition.in.
ConvertVideoClip(clip) ==
    [asset  |-> [type |-> "video", src |-> clip.src,
                 volume |-> OrElse(clip.volume, 1)],
     start  |-> clip.start,
     length |-> clip.duration,
     transition |-> clip.transition]

\* convertAudioClip
ConvertAudioClip(clip) ==
    [asset  |-> [type |-> "audio", src |-> clip.src,
                 volume |-> OrElse(clip.volume, 1)],
     start  |-> clip.start,
     length |-> clip.duration]

ConvertClip(category, clip) ==
    IF category = "overlay" THEN ConvertOverlayClip(clip)
    ELSE IF category = "video" THEN ConvertVideoClip(clip)
    ELSE ConvertAudioClip(clip)

\* One of the three loops of convert: each track of the category becomes a
\* track of its converted clips, pushed only if it has at least one clip.
RECURSIVE ConvertCategory(_, _, _, _)
ConvertCategory(category, list, i, tracks) ==
    IF i > Len(list) THEN tracks
    ELSE LET clips == [j \in 1..Len(list[i].clips) |->
                          ConvertClip(category, list[i].clips[j])]
         IN  ConvertCategory(category, list, i + 1,
                             IF Len(clips) > 0
                             THEN Append(tracks, [clips |-> clips])
                             ELSE tracks)

\* A converter that puts the video layer above the overlays.
ConvertTracks_VideoFirst(timeline) ==
    LET t1 == ConvertCategory("video", ListOr(timeline.tracks.video), 1, << >>)
        t2 == ConvertCategory("overlay", ListOr(timeline.tracks.overlay), 1, t1)
    IN  ConvertCategory("audio", ListOr(timeline.tracks.audio), 1, t2)

\* The tracks array convert builds: overlay loop, video loop, audio loop.
ConvertTracks(timeline) ==
    LET t1 == ConvertCategory("overlay", ListOr(timeline.tracks.overlay), 1, << >>)
        t2 == ConvertCategory("video", ListOr(timeline.tracks.video), 1, t1)
    IN  ConvertCategory("audio", ListOr(timeline.tracks.audio), 1, t2)

\* A converter that looks at fadeOut first.
FadeEffect_OutFirst(soundtrack) ==
    IF soundtrack.fadeOut # 0 THEN "fadeOut"
    ELSE IF soundtrack.fadeIn # 0 THEN "fadeIn"
    ELSE "none"

\* The effect of the soundtrack ("none": no effect field is set).  fadeIn
\* and fadeOut are numbers; an absent one and 0 are both falsy and both
\* written 0 here.
FadeEffect(soundtrack) ==
    IF soundtrack.fadeIn # 0 /\ soundtrack.fadeOut # 0 THEN "fadeInFadeOut"
    ELSE IF soundtrack.fadeIn # 0 THEN "fadeIn"
    ELSE IF soundtrack.fadeOut # 0 THEN "fadeOut"
    ELSE "none"

NoSoundtrack == [present |-> FALSE, src |-> NULL, volume |-> 0, effect |-> "none"]

ConvertSoundtrack(soundtrack) ==
    IF ~ soundtrack.present THEN NoSoundtrack
    ELSE [present |-> TRUE, src |-> soundtrack.src,
          volume |-> OrElse(soundtrack.volume, 1),
          effect |-> FadeEffect(soundtrack)]

\* x || d for a string option ("" stands for an absent one).
Default(x, d) == IF x = "" THEN d ELSE x

\* TimelineConverter.convert
Convert(timeline, options) ==
    [timeline |-> [tracks |-> ConvertTracks(timeline),
                   soundtrack |-> ConvertSoundtrack(timeline.soundtrack)],
     output   |-> [format |-> Default(options.format, "mp4"),
                   resolution |-> Default(options.resolution, "hd"),
                   fps |-> timeline.fps],
     callback |-> options.webhook_url]

\* A converter that fills in the missing track lists of its argument.
InputAfterConvert_Defaulted(timeline) ==
    [timeline EXCEPT !.tracks =
        [overlay |-> List(ListOr(@.overlay)), video |-> List(ListOr(@.video)),
         audio |-> List(ListOr(@.audio))]]

\* The timeline object after convert returned: convert only reads it.
InputAfterConvert(timeline) == timeline

\* ---- the timelines given to the converter
Position(x, y) == Some([x |-> x, y |-> y])
NoPosition == [present |-> FALSE, value |-> [x |-> 0, y |-> 0]]

OverlayClip(id, type, position) ==
    [id |-> id, type |-> type, content |-> id, start |-> 0, duration |-> 3,
     position |-> position]

VideoClip(id, volume, transition) ==
    [id |-> id, src |-> id, start |-> 0, duration |-> 10, volume |-> volume,
     transition |-> transition]

AudioClip(id, volume) ==
    [id |-> id, src |-> id, start |-> 0, duration |-> 10, volume |-> volume]

Track(id, clips) == [id |-> id, clips |-> clips]

\* Per category: two tracks with a clip and one track without clips.
TrackChoices ==
    [overlay |-> { Track("o1", << OverlayClip("title one", "text", NoPosition) >>),
                   Track("o2", << OverlayClip("<b>two</b>", "html", Position(50, 90)) >>),
                   Track("o3", << >>) },
     video   |-> { Track("v1", << VideoClip("one.mp4", None, "fade") >>),
                   Track("v2", << VideoClip("two.mp4", Some(0), "") >>),
                   Track("v3", << >>) },
     audio   |-> { Track("a1", << AudioClip("one.mp3", Some(1)) >>),
                   Track("a2", << AudioClip("two.mp3", None) >>),
                   Track("a3", << >>) }]

\* The lists of at most MaxTracks different tracks of S, and the absent list.
TrackLists(S) ==
    {NoList} \cup
    { List(l) : l \in { m \in UNION {[1..k -> S] : k \in 0..MaxTracks} :
                          \A i, j \in DOMAIN m : i # j => m[i] # m[j] } }

NoSoundtrackGiven == [present |-> FALSE, src |-> NULL, volume |-> None,
                      fadeIn |-> 0, fadeOut |-> 0]

Soundtracks ==
    [present : {TRUE}, src : {"music.mp3"}, volume : {None, Some(0)},
     fadeIn : {0, 2}, fadeOut : {0, 3}]

TimelineOf(overlay, video, audio, soundtrack) ==
    [fps |-> 30, soundtrack |-> soundtrack,
     tracks |-> [overlay |-> overlay, video |-> video, audio |-> audio]]

\* Every combination of track lists, without soundtrack.
OrderTimelines ==
    { TimelineOf(o, v, a, NoSoundtrackGiven) :
        o \in TrackLists(TrackChoices.overlay),
        v \in TrackLists(TrackChoices.video),
        a \in TrackLists(TrackChoices.audio) }

\* Coordinates around the two band limits, and the ends of the range.
Coordinates == {0, 32, 33, 34, 50, 65, 66, 67, 100}

Positions == {NoPosition} \cup {Position(x, y) : x, y \in Coordinates}

\* One overlay clip at every position, as text and as html.
PositionTimelines ==
    { TimelineOf(List(<< Track("o1", << OverlayClip("caption", type, pos) >>) >>),
                 List(<< >>), List(<< >>), NoSoundtrackGiven) :
        type \in {"text", "html"}, pos \in Positions }

\* One video track under every soundtrack.
SoundtrackTimelines ==
    { TimelineOf(NoList, List(<< Track("v1", << VideoClip("one.mp4", None, "") >>) >>),
                 NoList, st) : st \in Soundtracks }

Timelines == OrderTimelines \cup PositionTimelines \cup SoundtrackTimelines

ConvertOptions ==
    { [format |-> "", resolution |-> "", webhook_url |-> ""],
      [format |-> "gif", resolution |-> "1080", webhook_url |-> "https://hook"] }

ConvStart(timeline, options) ==
    [kind |-> "conv", given |-> timeline, timeline |-> timeline,
     options |-> options, edits |-> << >>]

\* converter.convert(timeline, options) is called on the timeline object.
convert ==
    /\ conv # Idle /\ Len(conv.edits) < MaxConversions
    /\ conv' = [conv EXCEPT
                  !.edits = Append(@, Convert(conv.timeline, conv.options)),
                  !.timeline = InputAfterConvert(@)]
    /\ UNCHANGED <<mainVars, gatherVars, timelineVars, render, voice, http,
                   scriptGen, speech, serviceVars>>

ConvInit ==
    /\ MainInit
    /\ GatherIdle /\ TimelineIdle /\ RenderIdle /\ VoiceIdle /\ HttpIdle
    /\ scriptGen = Idle /\ speech = Idle /\ ServicesIdle
    /\ \E timeline \in Timelines, options \in ConvertOptions :
          conv = ConvStart(timeline, options)

SpecConv == ConvInit /\ [][convert]_vars

\* ------------------------------------- render jobs (render-service)
\* One render of one project is followed through render-service: POST /render,
\* the provider working on it, the provider's callback to /webhook and
\* GET /status/:render_id requests, each handler step by step (one step per
\* await on RENDER_JOBS, the provider, R2 or the job's webhook_url).

\* A render has ended.
RenderEnded(status) == status \in {"done", "failed"}

\* The provider's next statuses ('fetching' and 'saving' are passed like
\* 'rendering').
ProviderNext(status) ==
    CASE status = "queued"    -> {"rendering"}
      [] status = "rendering" -> {"done", "failed"}
      [] OTHER                -> {}

NoJob == [present |-> FALSE, status |-> "none", webhook_url |-> FALSE]

\* const r2Key = `renders/${job.project_id}/${webhook.id}.mp4`
R2Key(project_id, render_id) == <<"renders", project_id, render_id, "mp4">>

RenderId == "r1"

\* A handler that goes on to the forward when the upload has failed.
AfterStore_ForwardAnyway(ok) == "forward"

\* await env.R2_BUCKET.put(...): a throw leaves the try for its catch, which
\* only logs.
AfterStore(ok) == IF ok THEN "forward" ELSE "end"

\* await shotstack.downloadVideo(webhook.url): as above.
AfterDownload(ok) == IF ok THEN "store" ELSE "end"

NoHandler == [pc |-> "idle", job |-> NoJob, status |-> "none"]

JobsInit ==
    /\ MainInit
    /\ GatherIdle /\ TimelineIdle /\ RenderIdle /\ VoiceIdle /\ HttpIdle
    /\ scriptGen = Idle /\ speech = Idle /\ conv = Idle /\ cache = Idle
    /\ \E url \in BOOLEAN :
         jobs = [kind |-> "service", webhook_url |-> url, handler |-> "start",
                 provider |-> "none", callbacks |-> 0, kv |-> NoJob,
                 wh |-> NoHandler, st |-> NoHandler, polls |-> 0,
                 failed |-> "none", r2 |-> {}, forwarded |-> << >>,
                 unknown |-> 0]

JobsStep ==
    UNCHANGED <<mainVars, gatherVars, timelineVars, render, voice, http,
                scriptGen, speech, conv, cache>>

\* handleRender up to `await shotstack.render(shotstackEdit)`: the provider
\* takes the render, or the submission fails (500).
handleRender_Submit ==
    /\ jobs # Idle /\ jobs.handler = "start"
    /\ \E accepted \in BOOLEAN :
         jobs' = IF accepted
                 THEN [jobs EXCEPT !.handler = "accepted", !.provider = "queued"]
                 ELSE [jobs EXCEPT !.handler = "failed"]
    /\ JobsStep

\* handleRender: `await env.RENDER_JOBS.put(...)` of the new job, then 200; a
\* failing put is answered 500 by the catch.
handleRender_Put ==
    /\ jobs # Idle /\ jobs.handler = "accepted"
    /\ \E ok \in BOOLEAN :
         jobs' = IF ok
                 THEN [jobs EXCEPT !.handler = "answered",
                                   !.kv = [present |-> TRUE, status |-> "queued",
                                           webhook_url |-> jobs.webhook_url]]
                 ELSE [jobs EXCEPT !.handler = "failed"]
    /\ JobsStep

\* The provider works on the render; when it ends it calls back.
providerStep ==
    /\ jobs # Idle
    /\ \E s \in ProviderNext(jobs.provider) :
         jobs' = [jobs EXCEPT !.provider = s,
                              !.callbacks = IF RenderEnded(s) THEN @ + 1 ELSE @]
    /\ JobsStep

\* handleWebhook: request.json() and RENDER_JOBS.get; without a record the
\* callback is answered as one for an unknown job.
handleWebhook_Get ==
    /\ jobs # Idle /\ jobs.callbacks > 0 /\ jobs.wh.pc = "idle"
    /\ jobs' = IF jobs.kv.present
               THEN [jobs EXCEPT !.callbacks = @ - 1,
                                 !.wh = [pc |-> "put", job |-> jobs.kv,
                                         status |-> jobs.provider]]
               ELSE [jobs EXCEPT !.callbacks = @ - 1, !.unknown = @ + 1,
                                 !.wh = [NoHandler EXCEPT !.pc = "end"]]
    /\ JobsStep

\* handleWebhook: job.status = webhook.status; RENDER_JOBS.put.
handleWebhook_Put ==
    /\ jobs # Idle /\ jobs.wh.pc = "put"
    /\ \E ok \in BOOLEAN :
         jobs' = IF ok
                 THEN [jobs EXCEPT
                         !.kv = [jobs.wh.job EXCEPT !.status = jobs.wh.status],
                         !.wh.pc = IF jobs.wh.status = "done" THEN "download"
                                   ELSE "forward_error"]
                 ELSE [jobs EXCEPT !.wh.pc = "end"]
    /\ JobsStep

\* handleWebhook, status done: downloadVideo.
handleWebhook_Download ==
    /\ jobs # Idle /\ jobs.wh.pc = "download"
    /\ \E ok \in BOOLEAN :
         jobs' = [jobs EXCEPT !.wh.pc = AfterDownload(ok),
                              !.failed = IF ok THEN @ ELSE "download"]
    /\ JobsStep

\* handleWebhook, status done: R2_BUCKET.put under r2Key.
handleWebhook_Store ==
    /\ jobs # Idle /\ jobs.wh.pc = "store"
    /\ \E ok \in BOOLEAN :
         jobs' = [jobs EXCEPT
                    !.wh.pc = AfterStore(ok),
                    !.failed = IF ok THEN @ ELSE "storage",
                    !.r2 = IF ok THEN @ \cup {R2Key(1, RenderId)} ELSE @]
    /\ JobsStep

\* handleWebhook, status done: if (job.webhook_url) fetch(...) with status
\* 'completed' and the r2_key.
handleWebhook_Forward ==
    /\ jobs # Idle /\ jobs.wh.pc = "forward"
    /\ jobs' = [jobs EXCEPT
                  !.wh.pc = "end",
                  !.forwarded = IF jobs.wh.job.webhook_url
                                THEN Append(@, [status |-> "completed",
                                                r2_key |-> R2Key(1, RenderId)])
                                ELSE @]
    /\ JobsStep

\* handleWebhook, status failed: the error is forwarded.
handleWebhook_ForwardError ==
    /\ jobs # Idle /\ jobs.wh.pc = "forward_error"
    /\ jobs' = [jobs EXCEPT
                  !.wh.pc = "end",
                  !.forwarded = IF jobs.wh.job.webhook_url
                                THEN Append(@, [status |-> "failed",
                                                r2_key |-> << >>])
                                ELSE @]
    /\ JobsStep

\* handleStatus: RENDER_JOBS.get; 404 without a record.
handleStatus_Get ==
    /\ jobs # Idle /\ jobs.st.pc = "idle" /\ jobs.polls < MaxPolls
    /\ jobs' = IF jobs.kv.present
               THEN [jobs EXCEPT !.polls = @ + 1,
                                 !.st = [pc |-> "query", job |-> jobs.kv,
                                         status |-> "none"]]
               ELSE [jobs EXCEPT !.polls = @ + 1]
    /\ JobsStep

\* handleStatus: shotstack.getStatus(renderId); 500 when it fails.
handleStatus_Query ==
    /\ jobs # Idle /\ jobs.st.pc = "query"
    /\ \E ok \in BOOLEAN :
         jobs' = IF ok
                 THEN [jobs EXCEPT !.st.pc = "put", !.st.status = jobs.provider]
                 ELSE [jobs EXCEPT !.st = NoHandler]
    /\ JobsStep

\* handleStatus: job.status = status.status on the record read at the
\* start; RENDER_JOBS.put; 200.
handleStatus_Put ==
    /\ jobs # Idle /\ jobs.st.pc = "put"
    /\ jobs' = [jobs EXCEPT
                  !.kv = [jobs.st.job EXCEPT !.status = jobs.st.status],
                  !.st = NoHandler]
    /\ JobsStep

JobsNext ==
    \/ handleRender_Submit
    \/ handleRender_Put
    \/ providerStep
    \/ handleWebhook_Get
    \/ handleWebhook_Put
    \/ handleWebhook_Download
    \/ handleWebhook_Store
    \/ handleWebhook_Forward
    \/ handleWebhook_ForwardError
    \/ handleStatus_Get
    \/ handleStatus_Query
    \/ handleStatus_Put

SpecJobs == JobsInit /\ [][JobsNext]_vars

\* ------------------------------------- search cache (stock-media)
\* handleSearch and handleBatchSearch over SEARCH_CACHE, with a clock and a
\* provider whose catalogue changes with time.

Queries == {"cats", "dogs"}

\* The options of a search, as the set of the fields that are set.
FieldSets == {{}, {<<"per_page", 5>>}}

\* body.options of POST /search: absent, or an object.
SearchOptions == [given : BOOLEAN, fields : FieldSets]

\* JSON.stringify(body.options || {}): an absent options object is written
\* as the empty object; undefined fields are left out.
StringifyOptions(options) == IF options.given THEN options.fields ELSE {}

\* A key made of the query alone.
CacheKey_QueryOnly(query, options) == <<"search", query, {}>>

\* const cacheKey = `search:${query}:${JSON.stringify(options)}`
CacheKey(query, options) == <<"search", query, StringifyOptions(options)>>

\* What PexelsProvider.searchVideos(query, options) asks the provider for: a
\* missing options object is the default {}.
Requested(query, options) ==
    [query |-> query, fields |-> IF options.given THEN options.fields ELSE {}]

CacheKeys == {<<"search", q, f>> : q \in Queries, f \in FieldSets}

NoEntry == [present |-> FALSE, value |-> << >>, stored_at |-> 0]

\* SEARCH_CACHE.get(cacheKey, 'json') at time now: an entry is gone
\* expirationTtl seconds after its put.
KvGet(kv, key, now) ==
    IF kv[key].present /\ now < kv[key].stored_at + CACHE_TTL
    THEN kv[key] ELSE NoEntry

\* One search of handleSearch, or one query item of handleBatchSearch, on
\* the state c: the cached entry is served without a provider call;
\* otherwise the provider is searched ("ok", "fail") and its result, the
\* catalogue's answer at that time, is put into the cache.
SearchItem(c, query, options, outcome) ==
    LET key    == CacheKey(query, options)
        cached == IF c.bound THEN KvGet(c.kv, key, c.clock) ELSE NoEntry
        asked  == Requested(query, options)
        result == [query |-> asked.query, fields |-> asked.fields, at |-> c.clock]
        call   == [query |-> asked.query, fields |-> asked.fields,
                   ok |-> outcome # "fail", result |-> result, time |-> c.clock]
        base   == [query |-> asked.query, fields |-> asked.fields,
                   time |-> c.clock]
    IN  IF cached.present
        THEN [c EXCEPT !.served = base @@ [from |-> "cache", calls |-> 0,
                                            value |-> cached.value],
                       !.count = @ + 1]
        ELSE IF outcome = "fail"
        THEN [c EXCEPT !.served = base @@ [from |-> "error", calls |-> 1,
                                            value |-> << >>],
                       !.searches = @ \cup {call}, !.count = @ + 1]
        ELSE [c EXCEPT !.served = base @@ [from |-> "provider", calls |-> 1,
                                            value |-> result],
                       !.searches = @ \cup {call}, !.count = @ + 1,
                       !.kv = IF c.bound
                              THEN [@ EXCEPT ![key] = [present |-> TRUE,
                                                       value |-> result,
                                                       stored_at |-> c.clock]]
                              ELSE @]

NothingServed ==
    [query |-> "", fields |-> {}, time |-> 0, from |-> "none", calls |-> 0,
     value |-> << >>]

CacheInit ==
    /\ MainInit
    /\ GatherIdle /\ TimelineIdle /\ RenderIdle /\ VoiceIdle /\ HttpIdle
    /\ scriptGen = Idle /\ speech = Idle /\ conv = Idle /\ jobs = Idle
    /\ \E bound \in BOOLEAN :
         cache = [kind |-> "cache", bound |-> bound,
                  kv |-> [k \in CacheKeys |-> NoEntry], clock |-> 0,
                  searches |-> {}, served |-> NothingServed, count |-> 0]

CacheStep ==
    UNCHANGED <<mainVars, gatherVars, timelineVars, render, voice, http,
                scriptGen, speech, conv, jobs>>

SearchOutcomes == {"ok", "fail"}

\* POST /search with a valid instance_id.
handleSearch ==
    /\ cache # Idle /\ cache.count < MaxSearches
    /\ \E query \in Queries, options \in SearchOptions,
          outcome \in SearchOutcomes :
         cache' = SearchItem(cache, query, options, outcome)
    /\ CacheStep

\* POST /batch-search: the query items one after the other, each with the
\* options object {per_page, orientation, size} built from the item.
handleBatchSearch ==
    /\ cache # Idle /\ cache.count + 2 <= MaxSearches
    /\ \E q1 \in Queries, q2 \in Queries, f1 \in FieldSets, f2 \in FieldSets,
          o1 \in SearchOutcomes, o2 \in SearchOutcomes :
         cache' = SearchItem(
                    SearchItem(cache, q1, [given |-> TRUE, fields |-> f1], o1),
                    q2, [given |-> TRUE, fields |-> f2], o2)
    /\ CacheStep

\* Time passes.
tick ==
    /\ cache # Idle /\ cache.clock + TickSeconds <= MaxClock
    /\ cache' = [cache EXCEPT !.clock = @ + TickSeconds]
    /\ CacheStep

CacheNext ==
    \/ handleSearch
    \/ handleBatchSearch
    \/ tick

SpecCache == CacheInit /\ [][CacheNext]_vars



\* ---------------------------------------------------------------- C1
\* A work function starts in this transition.
WorkStarts(r) == ~ run[r].working /\ run'[r].working

PipelineOrder ==
    << "starting", "processing", "script_generated", "voiceover_generated",
       "timeline_assembled", "complete" >>

Rank(st) ==
    IF \E i \in 1..Len(PipelineOrder) : PipelineOrder[i] = st
    THEN CHOOSE i \in 1..Len(PipelineOrder) : PipelineOrder[i] = st
    ELSE 0

\* This transition belongs to a retry request (reset, its POST /start, or its
\* final UPDATE).
RetryActs == \E c \in Reqs : req'[c].kind = "retry" /\ req'[c] # req[c]

\* C2: under the interleavings of project creation, POST /start and the steps
\* of the run it started, a project's status never moves backward along the
\* pipeline order, except by a transition to error/failed or by an explicit
\* retry.
C2_StatusMonotonic ==
    [][\A p \in DOMAIN rows :
          (p \in DOMAIN rows' /\ ~ RetryActs
             /\ Rank(rows[p].status) > 0 /\ Rank(rows'[p].status) > 0)
          => Rank(rows'[p].status) >= Rank(rows[p].status)]_vars

\* ---------------------------------------------------------------- C3
DefinedStatuses ==
    { "starting", "processing", "script_generated", "voiceover_generated",
      "timeline_assembled", "complete", "error", "failed" }

\* C3: in every reachable state each project's status is one of the defined
\* values.
C3_StatusDefined == \A p \in DOMAIN rows : rows[p].status \in DefinedStatuses

\* ---------------------------------------------------------------- C4
TerminalStatuses == {"complete", "error", "failed"}

\* The reset UPDATE of a retry request on project p happens in this transition.
RetryResets(p) ==
    \E c \in Reqs : /\ req[c].kind = "none" /\ req'[c].kind = "retry"
                    /\ req'[c].proj = p /\ req'[c].pc = "posted"

\* C4: once a project's status is complete, error or failed, only an explicit
\* retry (or deleting the project) changes it.
C4_TerminalStays ==
    [][\A p \in DOMAIN rows :
          (rows[p].status \in TerminalStatuses /\ p \in DOMAIN rows'
             /\ rows'[p].status # rows[p].status)
          => RetryResets(p)]_vars

\* ---------------------------------------------------------------- C5
\* Run r ends as failed in this transition.
RunFails(r) == run[r].state = "running" /\ run'[r].state = "errored"

\* C5: when a step fails, the run ends as failed with the project's status
\* set to error (or failed), and no later pipeline step is executed.
C5_FailureMarksProject ==
    [][\A r \in Reqs :
          /\ RunFails(r) =>
                (ProjOf(r) \in DOMAIN rows' =>
                    rows'[ProjOf(r)].status \in {"error", "failed"})
          /\ run[r].state = "errored" => run'[r] = run[r]]_vars

\* ---------------------------------------------------------------- C6
\* Run r terminates in this transition.
RunEnds(r) == run[r].state = "running" /\ run'[r].state \in {"complete", "errored"}

\* C6: a run that terminates leaves its project at complete with a non-empty
\* output_url, or at error with a non-empty error_message.
C6_TerminalOutcome ==
    [][\A r \in Reqs :
          (RunEnds(r) /\ ProjOf(r) \in DOMAIN rows') =>
             LET row == rows'[ProjOf(r)] IN
                \/ row.status = "complete" /\ row.output_url # NULL
                \/ row.status = "error" /\ row.error_message # NULL]_vars

\* ---------------------------------------------------------------- C7
RunsOf(p) == {r \in Reqs : Active(r) /\ ProjOf(r) = p}

\* C7: at no time are two workflow runs of the same project active.
C7_SingleRun == \A p \in Projects : Cardinality(RunsOf(p)) <= 1

\* ---------------------------------------------------------------- C8
\* C8: a retry of a project in status error sets status to starting and sets
\* output_url, timeline_url, voiceover_url and the script fields (script_url,
\* script_json) to NULL, before POST /start is issued.
C8_RetryClears ==
    [][\A p \in DOMAIN rows :
          (RetryResets(p) /\ rows[p].status = "error") =>
             /\ rows'[p].status = "starting"
             /\ rows'[p].output_url = NULL
             /\ rows'[p].timeline_url = NULL
             /\ rows'[p].voiceover_url = NULL
             /\ rows'[p].script_json = NULL
             /\ rows'[p].script_url = NULL]_vars

\* ---------------------------------------------------------------- C9
\* useRetryProject is invoked with project id p in this transition.
RetryInvoked(c, p) ==
    req[c].kind = "none" /\ req'[c].kind = "retry" /\ req'[c].proj = p

CallFailed(k) ==
    gCalls[IF variant = "app" THEN k ELSE 1].kind \in {"error_response", "throw"}

\* The media list section k's own search returned.
OwnResult(k) ==
    LET call == gCalls[IF variant = "app" THEN k ELSE 1]
    IN  SearchResult(k - 1, call.count)

\* C10: when the stock-media call of some section fails, gather-stock-media
\* still completes, its result has one entry per section in section-index
\* order, the failed section's entry is an empty media list and every other
\* section's entry is the result of its own search.
C10_PartialFailure ==
    (gResult.kind # "idle" /\ \E i \in 1..gScript : CallFailed(i)) =>
        /\ gResult.kind = "ok"
        /\ Len(gResult.value) = gScript
        /\ \A k \in 1..gScript :
              /\ "sectionIndex" \in DOMAIN gResult.value[k]
              /\ gResult.value[k].sectionIndex = k - 1
              /\ gResult.value[k].media =
                    IF CallFailed(k) THEN << >> ELSE OwnResult(k)

\* ---------------------------------------------------------------- C11
\* Number of overlays of one kind in an overlay track.
CountKind(overlays, k) ==
    Cardinality({i \in 1..Len(overlays) : overlays[i].kind = k})

\* C11: for every script of N >= 1 sections, whatever the sections hold, the
\* timeline assemble-timeline returns has exactly one opening title overlay,
\* exactly N-1 section label overlays and exactly one closing overlay.
C11_OverlayCounts ==
    tTimeline # Idle =>
        /\ CountKind(tTimeline.overlays, "title") = 1
        /\ CountKind(tTimeline.overlays, "label") = Len(tScript) - 1
        /\ CountKind(tTimeline.overlays, "end") = 1

\* ---------------------------------------------------------------- C12
\* The media list gather-stock-media produced for section i (1-based): the
\* app keeps one list per section, the worker one list for the whole script.
MediaOfSection(i) ==
    IF variant = "app" THEN FindMedia(tMedia, i - 1) ELSE tMedia

\* Sum of the durations of the sections before section i.
RECURSIVE DurationsBefore(_)
DurationsBefore(i) ==
    IF i = 1 THEN 0 ELSE DurationsBefore(i - 1) + tScript[i - 1].duration

\* The positions in the video track of the clips of section i.
ClipsOfSection(i) ==
    {k \in 1..Len(tTimeline.clips) : tTimeline.clips[k].section = i - 1}

\* C12: each section with a non-empty media list contributes exactly one video
\* clip, built from the first item of that list and starting at the sum of the
\* durations of the sections before it; a section without media contributes
\* no clip (and the step still returns); so there are never more clips than
\* sections.
C12_ClipPerSection ==
    tTimeline # Idle =>
        /\ tTimeline.kind = "ok"
        /\ Len(tTimeline.clips) <= Len(tScript)
        /\ \A i \in 1..Len(tScript) :
              IF Len(MediaOfSection(i)) > 0
              THEN /\ Cardinality(ClipsOfSection(i)) = 1
                   /\ \A k \in ClipsOfSection(i) :
                         /\ tTimeline.clips[k].src = MediaOfSection(i)[1].id
                         /\ tTimeline.clips[k].start = DurationsBefore(i)
              ELSE ClipsOfSection(i) = {}

\* ---------------------------------------------------------------- C13
\* The poll loop is about to make a status request.
InLoop ==
    /\ render.kind = "render" /\ render.phase = "poll"
    /\ render.attempts < MaxAttempts(variant)

\* The poll loop has used up its attempts without leaving.
AtBound ==
    /\ render.kind = "render" /\ render.phase = "poll"
    /\ render.attempts >= MaxAttempts(variant)

\* In this transition the work function leaves the poll loop by throwing err.
LoopRaises(err) ==
    /\ render'.error = err
    /\ render'.phase = "failed" \/ render'.tries = render.tries + 1

C14_TimeoutDistinct ==
    [][/\ (AtBound => (render'.phase = "failed" /\ render'.error = "timeout"))
       /\ ((InLoop /\ render'.last = "failed") =>
             (render'.error = "render_failed" /\ render'.error # "timeout"))]_vars

\* ---------------------------------------------------------------- C15
\* C15: within one run at most one render job is submitted, and once a render
\* has ended failed or timed out the run has failed (no further submission).
C15_SingleSubmission ==
    render.kind = "render" =>
        /\ render.submits <= 1
        /\ (render.error \in {"render_failed", "timeout"} => render.phase = "failed")

\* ---------------------------------------------------------------- C16
\* The work function of generate-voiceover runs in this transition.
VoiceAttempt ==
    voice.kind = "voice" /\ Len(voice'.log) = Len(voice.log) + 1

\* The response status the attempt of this transition got.
AttemptStatus == voice'.log[Len(voice'.log)]

\* C16: generate-voiceover runs its work function at most limit+1 = 4 times in
\* a run; a failed attempt with attempts left is followed by another attempt
\* after a delay of 10 s doubled per failure; the first successful attempt
\* ends the step with its result; when all attempts failed the step fails
\* and the run is aborted.
C16_VoiceoverRetries ==
    /\ [](voice.kind = "voice" => Len(voice.log) <= VoiceoverRetryLimit + 1)
    /\ [][VoiceAttempt =>
            IF AttemptStatus = 200
            THEN voice'.phase = "done" /\ voice'.result = Len(voice'.log)
            ELSE IF Len(voice'.log) <= VoiceoverRetryLimit
            THEN /\ voice'.phase = "work"
                 /\ voice'.delay = VoiceoverInitialDelay * (2 ^ (Len(voice'.log) - 1))
            ELSE voice'.phase = "failed"]_vars

\* ---------------------------------------------------------------- C17
\* C17: an attempt answered with an authentication/configuration error (401)
\* fails the step at once, without another attempt, while an attempt answered
\* with a rate-limit (429) or transient (5xx) error is re-attempted as long as
\* attempts are left.
C17_AuthErrorNotRetried ==
    [][VoiceAttempt =>
         /\ (AttemptStatus = 401 => voice'.phase = "failed")
         /\ ((AttemptStatus \in {429, 500, 503}
                /\ Len(voice'.log) <= VoiceoverRetryLimit)
              => voice'.phase = "work")]_vars

\* ---------------------------------------------------------------- C18
\* The endpoints that are neither /health nor /webhook.
ProtectedPaths == {"/start", "/status", "/render", "/generate", "/search"}

\* The request carries no x-api-key, or one whose lookup gives no enabled row
\* (unknown key, disabled key, failing lookup).
NoValidKey(q) == q.key = "none" \/ KeyLookup(q.key, q.db) # "row"

\* C18: in each worker a request to an endpoint other than /health and
\* /webhook that carries no valid key is answered 401 (or 403) and has none
\* of the endpoint's effects (no workflow start, provider call, storage or
\* table write).
C18_KeyRequired ==
    [][(http'.request.path \in ProtectedPaths /\ NoValidKey(http'.request))
          => /\ http'.status \in {401, 403}
             /\ http'.effects = {}
             /\ rows' = rows]_vars

\* ---------------------------------------------------------------- C19
\* C19: POST /webhook of render-service and of video-workflow answers 200
\* whatever the body and whatever happens inside (unknown job, failed
\* download, storage write or forward, database error, rate limiting).
C19_WebhookAlways200 ==
    [][(http'.request.path = "/webhook"
          /\ http'.request.worker \in {"render-service", "video-workflow"})
          => http'.status = 200]_vars

\* ---------------------------------------------------------------- C20
\* A POST /start that reaches handleStart with a JSON body in which
\* projectId, prompt or duration is missing.
IncompleteStart(q) ==
    /\ q.worker = "video-workflow" /\ q.path = "/start"
    /\ Authenticate(q.path, q.key, q.db)
    /\ q.json
    /\ q.fields # {"projectId", "prompt", "duration"}

\* C20: POST /start with projectId, prompt or duration missing is answered 400,
\* creates no workflow instance and changes no project row.
C20_StartValidates ==
    [][IncompleteStart(http'.request)
          => /\ http'.status = 400
             /\ "workflow_create" \notin http'.effects
             /\ rows' = rows]_vars

\* A POST /start naming an existing project but lacking prompt and duration
\* was answered 400.
C20_Witness ==
    /\ IncompleteStart(http.request)
    /\ http.request.fields = {"projectId"}
    /\ http.request.proj \in DOMAIN rows
    /\ http.status = 400

\* ------------------------------------------------------------------- C21
\* The transitions of run r that handle a failure: the exception of a failed
\* step reaches run() (caught, or ending the run), and the handle-error step.
FailureHandling(r) ==
    /\ run[r].state = "running"
    /\ \/ run'[r].state = "errored"
       \/ ~ run[r].failed /\ run'[r].failed

\* The columns of a row other than status.
DataColumns == DOMAIN NewRow("starting") \ {"status"}

\* C21: the failure handling of a run changes nothing but the status of its
\* project: every other column of every row (script_url, voiceover_url,
\* timeline_url among them) keeps its value, no row appears or disappears,
\* rows of other projects are untouched and the artifact store is unchanged.
C21_NoRollback ==
    [][ \A r \in Reqs : FailureHandling(r) =>
          /\ storage' = storage
          /\ DOMAIN rows' = DOMAIN rows
          /\ \A p \in DOMAIN rows :
                /\ \A f \in DataColumns : rows'[p][f] = rows[p][f]
                /\ (p # ProjOf(r) => rows'[p] = rows[p]) ]_vars

\* A run failed after update-script-status and update-voiceover-status: the
\* project is in error and still references the script and the voiceover.
C21_Witness ==
    \E r \in Reqs :
        /\ run[r].state = "errored"
        /\ ProjOf(r) \in DOMAIN rows
        /\ rows[ProjOf(r)].status = "error"
        /\ rows[ProjOf(r)].script_url = URL
        /\ rows[ProjOf(r)].voiceover_url = URL
        /\ "script.json" \in storage[ProjOf(r)]

\* ------------------------------------------------------------------- C22
StatusUpdateSteps ==
    {"update-script-status", "update-voiceover-status",
     "update-timeline-status", "update-complete-status", "update-status"}

\* The table and the store after the work function of step s ran once for
\* project p on the table and store of db.
Executed(s, out, p, db) ==
    [rows    |-> UpdateRow(db.rows, p, StepChanges(variant, s, out)),
     storage |-> StepStorage(variant, s, db.storage, p)]

\* A run is about to execute the work function of a status-update step.
AtStatusUpdate(r) ==
    Active(r) /\ ~ run[r].failed /\ CurStep(r) \in StatusUpdateSteps

\* C22: executing the work function of a status-update step twice in a row
\* with the same inputs leaves the projects table (status and url columns)
\* and the artifact store as executing it once does.
C22_StatusUpdateIdempotent ==
    \A r \in Reqs : AtStatusUpdate(r) =>
        \A out \in WorkResults(r, CurStep(r)) :
            LET now  == [rows |-> rows, storage |-> storage]
                once == Executed(CurStep(r), out, ProjOf(r), now)
            IN  Executed(CurStep(r), out, ProjOf(r), once) = once

\* A run stands before update-timeline-status with its row present, and the
\* first execution writes both the row and the store.
C22_Witness ==
    \E r \in Reqs :
        /\ AtStatusUpdate(r)
        /\ CurStep(r) = "update-timeline-status"
        /\ ProjOf(r) \in DOMAIN rows
        /\ LET now  == [rows |-> rows, storage |-> storage]
               once == Executed(CurStep(r), run[r].renderUrl, ProjOf(r), now)
           IN  once.rows # rows /\ once.storage # storage

\* ------------------------------------------------------------------- C23
\* Run r takes a step (failure handling included).
RunSteps(r) == run'[r] # run[r]

\* C23: a step of the run of project A, failure handling included, leaves
\* the row and the stored artifacts of every other project unchanged, under
\* every interleaving of the runs.
C23_RunsIndependent ==
    [][ \A r \in Reqs : RunSteps(r) =>
          \A p \in DOMAIN rows \ {ProjOf(r)} :
              /\ p \in DOMAIN rows'
              /\ rows'[p] = rows[p]
              /\ storage'[p] = storage[p] ]_vars

\* Two runs are under way at different positions: one project has its
\* timeline stored, another has only had its script status written.
C23_Witness ==
    \E a, b \in Reqs :
        /\ a # b /\ Active(a) /\ Active(b)
        /\ rows[ProjOf(a)].status = "timeline_assembled"
        /\ "timeline.json" \in storage[ProjOf(a)]
        /\ rows[ProjOf(b)].status = "script_generated"
        /\ storage[ProjOf(b)] \subseteq {"script.json"}

\* ------------------------------------------------------------- C24, C25
\* generate-script has been executed on the provider's response.
ScriptStepDone == scriptGen # Idle /\ scriptGen.phase # "start"

\* C24: when the provider answered with a text that JSON.parse rejects,
\* generate-script fails: it returns no script, no later step runs, and no
\* script is written to the store or to the row.
C24_ParseFailureFails ==
    (ScriptStepDone /\ scriptGen.response.ok
                    /\ ~ JsonParses(scriptGen.response.text)) =>
        /\ scriptGen.phase \in {"thrown", "errored"}
        /\ scriptGen.script = NoScript
        /\ "update-script-status" \notin scriptGen.ran
        /\ scriptGen.stored = {}
        /\ scriptGen.row.script_url = NULL
        /\ scriptGen.row.script_json = NULL

\* C25: in the worker's generate-script a response whose content does not
\* parse (after the code fences are removed) yields a script of exactly one
\* section, whose narration is the prompt and whose duration is the target
\* duration.
C25_FallbackScript ==
    (ScriptStepDone /\ variant = "worker"
                    /\ ~ JsonParses(CleanContent(scriptGen.response.text))) =>
        /\ Len(scriptGen.script.sections) = 1
        /\ scriptGen.script.sections[1].narration = scriptGen.prompt
        /\ scriptGen.script.sections[1].duration = scriptGen.duration

\* ------------------------------------------------------------------- C26
\* handleGenerate has answered a request whose provider call failed with
\* the given status.
Answered(statuses) ==
    /\ speech # Idle /\ speech.response.status # 0
    /\ speech.upstream.status \in statuses

\* C26: provider status 401 is answered INVALID_API_KEY (401), 429
\* PROVIDER_RATE_LIMIT (429), 422 INVALID_PARAMETERS (422), 500/502/503
\* SERVICE_UNAVAILABLE (503), so that no two of these categories share an
\* error code, and GENERATION_ERROR (500) is the answer to other failures
\* only.
C26_DistinctErrorKinds ==
    /\ Answered({401}) => speech.response = ErrorResponse("INVALID_API_KEY", 401)
    /\ Answered({429}) => speech.response = ErrorResponse("PROVIDER_RATE_LIMIT", 429)
    /\ Answered({422}) => speech.response = ErrorResponse("INVALID_PARAMETERS", 422)
    /\ Answered({500, 502, 503}) =>
           speech.response = ErrorResponse("SERVICE_UNAVAILABLE", 503)
    /\ Answered({401, 422, 429, 500, 502, 503}) =>
           speech.response.code # "GENERATION_ERROR"

\* ------------------------------------------------------------- C27 - C30
\* The edits converted so far from the timeline given.
Converted == conv # Idle /\ Len(conv.edits) > 0

\* The tracks of a category that have at least one clip, in the order given.
Kept(category) ==
    SelectSeq(ListOr(conv.given.tracks[category]), LAMBDA t : Len(t.clips) > 0)

\* Where a track comes from: its category and what its first clip shows.
GivenOrigin(category, track) ==
    [category |-> category,
     shows |-> IF category = "overlay" THEN track.clips[1].content
               ELSE track.clips[1].src]

EditOrigin(track) ==
    LET asset == track.clips[1].asset
    IN  IF asset.type \in {"title", "html"}
        THEN [category |-> "overlay", shows |-> asset.content]
        ELSE [category |-> asset.type, shows |-> asset.src]

OriginsOf(category) ==
    [i \in 1..Len(Kept(category)) |-> GivenOrigin(category, Kept(category)[i])]

\* C27: the tracks of the edit are the overlay tracks, then the video
\* tracks, then the audio tracks, each category in the order given (the
\* tracks emitted are those that have at least one clip), for every
\* combination of absent, empty and non-empty track lists.
C27_TrackOrder ==
    Converted =>
        \A k \in 1..Len(conv.edits) :
            LET out == conv.edits[k].timeline.tracks
                expected == OriginsOf("overlay") \o OriginsOf("video")
                                                 \o OriginsOf("audio")
            IN  /\ Len(out) = Len(expected)
                /\ \A i \in 1..Len(out) : EditOrigin(out[i]) = expected[i]

\* Two overlay tracks (the second given first), two video tracks and an
\* audio track were converted into five tracks.
C27_Witness ==
    /\ Converted
    /\ Len(Kept("overlay")) = 2 /\ Len(Kept("video")) = 2 /\ Len(Kept("audio")) = 1
    /\ Kept("overlay")[1].id = "o2"
    /\ Len(conv.edits[1].timeline.tracks) = 5

\* The 3x3 grid of anchors: rows top to bottom, columns left to right.
AnchorGrid ==
    << <<"topLeft", "top", "topRight">>,
       <<"left", "center", "right">>,
       <<"bottomLeft", "bottom", "bottomRight">> >>

\* The cell of a coordinate: below 0.33 the first, above 0.66 the third,
\* from 0.33 to 0.66 inclusive the second.
Third(c) == IF c < LowThird THEN 1 ELSE IF c > HighThird THEN 3 ELSE 2

Anchor(position) ==
    IF position.present
    THEN AnchorGrid[Third(position.value.y)][Third(position.value.x)]
    ELSE "center"

\* C28: every overlay clip is placed at the anchor of the grid cell of its
\* normalized (x, y), the band limits 0.33 and 0.66 belonging to the middle
\* cell, and a clip without position is placed at center.
C28_PositionGrid ==
    Converted =>
        \A k \in 1..Len(conv.edits) :
            \A i \in 1..Len(Kept("overlay")) :
                \A j \in 1..Len(Kept("overlay")[i].clips) :
                    conv.edits[k].timeline.tracks[i].clips[j].asset.position
                        = Anchor(Kept("overlay")[i].clips[j].position)

\* A clip on both band limits (x = 0.33, y = 0.66) was placed at center.
C28_Witness ==
    /\ Converted
    /\ Len(Kept("overlay")) = 1
    /\ Kept("overlay")[1].clips[1].position = Position(LowThird, HighThird)
    /\ conv.edits[1].timeline.tracks[1].clips[1].asset.position = "center"

\* C29: the soundtrack of the edit has effect fadeInFadeOut when fade-in and
\* fade-out are both requested, fadeIn or fadeOut when only that one is, and
\* no effect when neither is.
C29_SoundtrackEffect ==
    (Converted /\ conv.given.soundtrack.present) =>
        \A k \in 1..Len(conv.edits) :
            LET given == conv.given.soundtrack
                out == conv.edits[k].timeline.soundtrack
            IN  /\ out.present
                /\ (given.fadeIn > 0 /\ given.fadeOut > 0) => out.effect = "fadeInFadeOut"
                /\ (given.fadeIn > 0 /\ given.fadeOut = 0) => out.effect = "fadeIn"
                /\ (given.fadeIn = 0 /\ given.fadeOut > 0) => out.effect = "fadeOut"
                /\ (given.fadeIn = 0 /\ given.fadeOut = 0) => out.effect = "none"

\* A soundtrack with both fades was converted.
C29_Witness ==
    /\ Converted
    /\ conv.given.soundtrack.present
    /\ conv.given.soundtrack.fadeIn > 0 /\ conv.given.soundtrack.fadeOut > 0
    /\ conv.edits[1].timeline.soundtrack.effect = "fadeInFadeOut"

Executions == IF tTimeline.kind = "executions" THEN tTimeline.timelines ELSE << >>

TimedEntries(t) ==
    {t.overlays[i] : i \in 1..Len(t.overlays)}
        \cup {[start |-> t.clips[i].start, length |-> t.clips[i].length] :
                 i \in 1..Len(t.clips)}
        \cup {[start |-> t.audio[i].start, length |-> t.audio[i].length] :
                 i \in 1..Len(t.audio)}

\* C32: in an assembled timeline every overlay, video clip and voiceover
\* clip starts at 0 or later and ends no later than the timeline's duration
\* (the section durations of the script being positive).
C32_ClipsWithinDuration ==
    \A k \in 1..Len(Executions) :
        \A e \in TimedEntries(Executions[k]) :
            e.start >= 0 /\ e.start + e.length <= Executions[k].duration

\* ------------------------------------------------------------------- C33
\* The request served came with the key of an enabled row while the UPDATE
\* of last_used_at failed.
UpdateFailed ==
    /\ ~ NoneServed
    /\ http.request.worker \in {"video-workflow", "render-service"}
    /\ http.request.key = "enabled"
    /\ http.request.db = "update_fails"

\* The table before the request was served.
RowsBefore == [p \in Projects |-> NewRow("starting")]

\* The status the same request gets when the UPDATE succeeds.
StatusWithUpdate ==
    LET q == [http.request EXCEPT !.db = "ok"]
    IN  IF q.worker = "video-workflow"
        THEN VideoWorkflowFetch(q, RowsBefore).status
        ELSE RenderServiceFetch(q, RowsBefore).status

\* C33: for a request with a valid, enabled key a failure of the
\* last_used_at update leaves the authentication result as it is (the
\* request is not refused) and the request is answered as it is when the
\* update succeeds.
C33_LastUsedBestEffort ==
    UpdateFailed => (http.status # 401 /\ http.status = StatusWithUpdate)

\* POST /start with a valid key was answered 200 although the update failed.
C33_Witness ==
    /\ UpdateFailed
    /\ http.request.worker = "video-workflow"
    /\ http.request.path = "/start"
    /\ http.status = 200

\* ------------------------------------------------------ C34, C38, C39
\* The completions forwarded to the job's webhook_url.
Completions ==
    {i \in 1..Len(jobs.forwarded) : jobs.forwarded[i].status = "completed"}

\* C34: a completion is forwarded for a webhook with status done only when
\* the video has been downloaded and stored in R2 under
\* renders/{project_id}/{render_id}.mp4; after a failed download or a failed
\* upload no completion is forwarded.
C34_ForwardAfterStore ==
    /\ \A i \in Completions :
         /\ jobs.forwarded[i].r2_key = <<"renders", 1, RenderId, "mp4">>
         /\ jobs.forwarded[i].r2_key \in jobs.r2
    /\ (jobs.failed # "none" => Completions = {})

\* The webhook for a finished render was handled and its completion
\* forwarded.
C34_Witness ==
    /\ jobs.wh.pc = "end" /\ jobs.wh.status = "done"
    /\ Completions # {}

\* C38: the status stored for the job in RENDER_JOBS never goes from done or
\* failed to another status.
C38_TerminalStays ==
    [][(jobs.kv.present /\ RenderEnded(jobs.kv.status))
          => RenderEnded(jobs'.kv.status)]_vars

\* C39: no callback of the provider for the render id POST /render handed
\* to it is handled as one for an unknown job.
C39_CallbackFindsJob == jobs.unknown = 0

\* ------------------------------------------------------------------- C35
\* The successful provider searches that the cached answer served last can
\* come from: same query, same options, same result, at most the TTL ago.
SourcesOfServed ==
    {s \in cache.searches :
        /\ s.ok
        /\ s.query = cache.served.query /\ s.fields = cache.served.fields
        /\ s.result = cache.served.value
        /\ s.time <= cache.served.time
        /\ cache.served.time - s.time <= CACHE_TTL}

\* C35: an answer served from SEARCH_CACHE is the result of an earlier
\* successful provider search for the same query and options that was
\* stored at most the TTL before, and no provider call is made for it; what
\* the cache holds was stored by a successful search (a failed search stores
\* nothing).
C35_CacheServesStoredResults ==
    /\ (cache.served.from = "cache"
          => (SourcesOfServed # {} /\ cache.served.calls = 0))
    /\ \A k \in CacheKeys :
         cache.kv[k].present =>
            \E s \in cache.searches :
               /\ s.ok /\ s.result = cache.kv[k].value
               /\ s.time = cache.kv[k].stored_at
               /\ k = <<"search", s.query, s.fields>>

\* A search was answered from the cache some time after the result was
\* stored, and a search for the other options of the same query has failed
\* and left no entry.
C35_Witness ==
    /\ cache.served.from = "cache"
    /\ \E s \in SourcesOfServed : s.time < cache.served.time
    /\ \E k \in CacheKeys : ~ cache.kv[k].present /\
         \E s \in cache.searches :
            /\ ~ s.ok /\ k = <<"search", s.query, s.fields>>
            /\ s.query = cache.served.query

\* ------------------------------------------------------------------- C36
\* C36: when POST /start is answered with an error (the caller then marks
\* the project failed), no workflow run exists for that request's project.
C36_FailedStartLeavesNoRun ==
    \A c \in Reqs : req[c].pc = "resp_fail" => run[c].state = "none"

\* ------------------------------------------------------------------- C37
\* C37: a project whose status is complete has an output_url that is
\* neither null nor empty.
C37_CompleteHasOutput ==
    \A p \in DOMAIN rows : rows[p].status = "complete" => rows[p].output_url # NULL

\* ------------------------------------------------------------------- C40
\* The project was created and its row has been deleted.
Deleted(p) == p \in usedIds /\ p \notin DOMAIN rows

\* C40: a deleted project stays deleted: no step of a run that is still
\* active, no webhook and no request's tail brings the row back; their
\* writes to the project find no row to change.
C40_DeleteIsFinal ==
    [][\A p \in Projects : Deleted(p) => p \notin DOMAIN rows']_vars

\* The project is deleted while a run for it is active and has steps
\* behind it and before it, and a webhook has come in.
C40_Witness ==
    \E r \in Reqs :
       /\ req[r].kind # "none" /\ Deleted(ProjOf(r))
       /\ Active(r) /\ run[r].pc > 1
       /\ webhooks > 0

====
